---- MODULE Spec2Model ----
(***************************************************************************)
(* Date-aware rebalancing resolver (src/src/config.py) and mixed weight    *)
(* calculator (src/src/creating_portfolio/calculate_weights_portfolio.py,  *)
(* capitalization_moex.py) of portfolio_testing.                           *)
(*                                                                         *)
(* Weights and capitalizations are exact rationals [n, d] in lowest terms, *)
(* so "sums to 1" is an equality; Python's floats differ from this only by *)
(* rounding.  A Python dict of weights is a function; the ordered mapping  *)
(* of one portfolio (YAML order = dict iteration order) is a sequence of   *)
(* [key, value] entries.  Date strings are sequences of characters and are *)
(* parsed the way datetime.strptime(s, '%Y-%m-%d') parses them.            *)
(***************************************************************************)
EXTENDS Integers, Sequences, FiniteSets, TLC

\* fetches counts the requests CapitalizationMOEX has sent to the exchange
\* moex is the state of one MoexDataLoader.load_all_tickers call: its
\* futures, the futures as_completed has yielded, quotations_dict and
\* failed_tickers
VARIABLES tickers_data, market_df, call, ret, fetches, moex

vars == <<tickers_data, market_df, call, ret, fetches, moex>>

-----------------------------------------------------------------------------
(* Bounds of the model *)

\* events per portfolio in the enumerated configurations
MaxEvents == 2

\* bulk requests one CapitalizationMOEX is asked to send
MaxFetches == 2

-----------------------------------------------------------------------------
(* Python values *)

\* Python's None
None == [none |-> TRUE]

\* float('nan'): a missing ISSUECAPITALIZATION cell of the DataFrame
NaN == [nan |-> TRUE]

RECURSIVE GCD(_, _)
GCD(a, b) == IF b = 0 THEN a ELSE GCD(b, a % b)

Abs(a) == IF a < 0 THEN -a ELSE a

\* the number n/d (d # 0), in lowest terms with a positive denominator
Reduced(n, d, g) ==
    IF d < 0 THEN [n |-> (-n) \div g, d |-> (-d) \div g]
    ELSE [n |-> n \div g, d |-> d \div g]

Rat(n, d) == Reduced(n, d, GCD(Abs(n), Abs(d)))

Zero == Rat(0, 1)
One == Rat(1, 1)

RAdd(a, b) == Rat(a.n * b.d + b.n * a.d, a.d * b.d)
RSub(a, b) == Rat(a.n * b.d - b.n * a.d, a.d * b.d)
RMul(a, b) == Rat(a.n * b.n, a.d * b.d)
\* a / b for b # 0 (every division of the code is guarded by a zero test)
RDiv(a, b) == Rat(a.n * b.d, a.d * b.n)
RLe(a, b) == a.n * b.d <= b.n * a.d
RLt(a, b) == a.n * b.d < b.n * a.d

\* dict restricted to the keys in S
Restrict(f, S) == [k \in S |-> f[k]]

\* sum(weights.values())
RECURSIVE SumValues(_)
SumValues(f) ==
    IF DOMAIN f = {} THEN Zero
    ELSE RAdd(f[CHOOSE k \in DOMAIN f : TRUE],
              SumValues(Restrict(f, DOMAIN f \ {CHOOSE k \in DOMAIN f : TRUE})))

\* {}
EmptyDict == << >>

-----------------------------------------------------------------------------
(* Dates: datetime.strptime(s, '%Y-%m-%d') *)

Digits == {"0", "1", "2", "3", "4", "5", "6", "7", "8", "9"}

DigitVal(c) ==
    CASE c = "0" -> 0 [] c = "1" -> 1 [] c = "2" -> 2 [] c = "3" -> 3
      [] c = "4" -> 4 [] c = "5" -> 5 [] c = "6" -> 6 [] c = "7" -> 7
      [] c = "8" -> 8 [] c = "9" -> 9

RECURSIVE NumVal(_)
NumVal(s) ==
    IF s = << >> THEN 0
    ELSE 10 * NumVal(SubSeq(s, 1, Len(s) - 1)) + DigitVal(s[Len(s)])

AllDigits(s) == \A i \in 1..Len(s) : s[i] \in Digits

IsLeap(y) == (y % 4 = 0 /\ y % 100 # 0) \/ y % 400 = 0

DaysInMonth(y, m) ==
    IF m = 2 THEN (IF IsLeap(y) THEN 29 ELSE 28)
    ELSE IF m \in {4, 6, 9, 11} THEN 30 ELSE 31

\* the range checks strptime makes on the numbers of the three fields
CheckedDate(y, m, d) ==
    IF y >= 1 /\ m \in 1..12 /\ d \in 1..DaysInMonth(y, m)
    THEN [ok |-> TRUE, y |-> y, m |-> m, d |-> d]
    ELSE [ok |-> FALSE, y |-> 0, m |-> 0, d |-> 0]

\* the format '%Y-%m-%d' on the three fields: %Y is four digits, %m and %d
\* one or two digits (a leading zero is optional)
ParseFields(ys, ms, ds) ==
    IF /\ Len(ys) = 4 /\ AllDigits(ys)
       /\ Len(ms) \in {1, 2} /\ AllDigits(ms)
       /\ Len(ds) \in {1, 2} /\ AllDigits(ds)
    THEN CheckedDate(NumVal(ys), NumVal(ms), NumVal(ds))
    ELSE [ok |-> FALSE, y |-> 0, m |-> 0, d |-> 0]

\* the fields of s around the dashes at i1 < i2
SplitAt(s, i1, i2) ==
    ParseFields(SubSeq(s, 1, i1 - 1), SubSeq(s, i1 + 1, i2 - 1), SubSeq(s, i2 + 1, Len(s)))

SplitAtDashes(s, dashes) ==
    IF Cardinality(dashes) # 2 THEN [ok |-> FALSE, y |-> 0, m |-> 0, d |-> 0]
    ELSE SplitAt(s, CHOOSE i \in dashes : \A j \in dashes : i <= j,
                    CHOOSE i \in dashes : \A j \in dashes : j <= i)

\* The parse of a date string, datetime.strptime(s, '%Y-%m-%d'): [ok, y, m, d];
\* ok = FALSE where strptime raises ValueError.
ParseDate(s) == SplitAtDashes(s, {i \in 1..Len(s) : s[i] = "-"})

\* datetime <= datetime and datetime > datetime on parsed dates
DtLe(a, b) ==
    \/ a.y < b.y
    \/ a.y = b.y /\ a.m < b.m
    \/ a.y = b.y /\ a.m = b.m /\ a.d <= b.d

DtGt(a, b) == ~DtLe(a, b)

\* the code point of a character of a date string: '-' is before the digits
CharOrd(c) == IF c = "-" THEN 45 ELSE 48 + DigitVal(c)

\* str < str: the order list.sort() puts strings in, character by character
\* at the first position where they differ, a proper prefix first
StrLt(a, b) ==
    \E k \in 1..(Len(a) + 1) :
        /\ \A i \in 1..(k - 1) : i <= Len(b) /\ a[i] = b[i]
        /\ k <= Len(b)
        /\ k <= Len(a) => CharOrd(a[k]) < CharOrd(b[k])

-----------------------------------------------------------------------------
(* Config (src/src/config.py) *)

\* a date string: its characters, "YYYY", "-", month, "-", day
MkDate(y, m, d) == y \o <<"-">> \o m \o <<"-">> \o d

D_2018_12_31 == MkDate(<<"2", "0", "1", "8">>, <<"1", "2">>, <<"3", "1">>)
D_2019_01_01 == MkDate(<<"2", "0", "1", "9">>, <<"0", "1">>, <<"0", "1">>)
D_2020_01_01 == MkDate(<<"2", "0", "2", "0">>, <<"0", "1">>, <<"0", "1">>)
D_2020_06_01 == MkDate(<<"2", "0", "2", "0">>, <<"0", "6">>, <<"0", "1">>)
D_2021_01_01 == MkDate(<<"2", "0", "2", "1">>, <<"0", "1">>, <<"0", "1">>)
D_2021_06_01 == MkDate(<<"2", "0", "2", "1">>, <<"0", "6">>, <<"0", "1">>)

\* dates written without the leading zero of the month, which strptime accepts
D_2020_9_01 == MkDate(<<"2", "0", "2", "0">>, <<"9">>, <<"0", "1">>)
D_2020_10_01 == MkDate(<<"2", "0", "2", "0">>, <<"1", "0">>, <<"0", "1">>)

\* a string of the form of a date that is no date: month 13
D_2020_13_01 == MkDate(<<"2", "0", "2", "0">>, <<"1", "3">>, <<"0", "1">>)

\* key.startswith('rebalance_date_'): a key is <<prefix, rest>>
StartsWithRebalanceDate(key) == key[1] = "rebalance_date_"

\* isinstance(value, dict)
IsDict(value) == "type" \in DOMAIN value /\ value.type = "dict"

\* line 88 and line 191: the entries of a portfolio that are rebalancing events
IsRebalanceEntry(e) ==
    StartsWithRebalanceDate(e.key) /\ IsDict(e.value) /\ "date" \in DOMAIN e.value

\* active_rebalance.get('tickers', {})
GetTickers(active_rebalance) ==
    IF "tickers" \in DOMAIN active_rebalance THEN active_rebalance.tickers ELSE EmptyDict

\* The result of a call: the value returned, the messages logged, and the
\* exception that left the call ("none" when it returned).
\* stored tells whether the value returned is an object the configuration
\* holds (the caller gets a reference to it) or a new object.
Return(val, msgs) == [val |-> val, log |-> msgs, exc |-> "none", stored |-> FALSE]
Raise(e, msgs) == [val |-> None, log |-> msgs, exc |-> e, stored |-> FALSE]

\* the return of an object held by the configuration
ReturnStored(val, msgs) == [val |-> val, log |-> msgs, exc |-> "none", stored |-> TRUE]

\* Both logs of two calls made in sequence, with the value of the second.
After(first, second) == [second EXCEPT !.log = first.log \cup second.log]

\* k.startswith('portfolio_') on the top-level keys of the enumerated files:
\* portfolio_1, portfolio_2 and start_date
StartsWithPortfolio(k) == k # "start_date"

\* Config._load_tickers_data on a configuration file: its content kept under
\* the keys that start with 'portfolio_'; a YAML error (line 52) and any other
\* exception, such as a content that is no mapping (line 55), are logged and
\* give {}
_load_tickers_data(file) ==
    IF file.kind = "mapping"
    THEN Return(Restrict(file.data, {k \in DOMAIN file.data : StartsWithPortfolio(k)}), {})
    ELSE IF file.kind = "yaml error"
    THEN Return(EmptyDict, {"error: yaml parse error"})
    ELSE Return(EmptyDict, {"error: unexpected error loading tickers"})

\* line 196, mutated: any event at or before the target replaces the current one
IsMoreRecentActive_any_match(rebalance_dt, target_dt, active_date) ==
    DtLe(rebalance_dt, target_dt)

\* line 196, mutated: the comparison with the target date is lost
IsMoreRecentActive_ignore_target(rebalance_dt, target_dt, active_date) ==
    active_date = None \/ DtGt(rebalance_dt, active_date)

\* line 196, mutated: an event of the same date replaces the current one
IsMoreRecentActive_not_earlier(rebalance_dt, target_dt, active_date) ==
    DtLe(rebalance_dt, target_dt) /\ (active_date = None \/ ~DtGt(active_date, rebalance_dt))

\* line 196: rebalance_dt <= target_dt and
\*           (active_date is None or rebalance_dt > active_date)
IsMoreRecentActive(rebalance_dt, target_dt, active_date) ==
    DtLe(rebalance_dt, target_dt) /\ (active_date = None \/ DtGt(rebalance_dt, active_date))

\* lines 192-198: the body of the loop for a rebalancing entry whose date
\* parsed to rebalance_dt; st is the loop's state [active_rebalance, active_date, exc]
ScanEvent(value, rebalance_dt, target_dt, st) ==
    IF ~rebalance_dt.ok THEN [st EXCEPT !.exc = "ValueError"]
    ELSE IF IsMoreRecentActive(rebalance_dt, target_dt, st.active_date)
    THEN [active_rebalance |-> value, active_date |-> rebalance_dt, exc |-> "none"]
    ELSE st

\* lines 191-198: the body of the loop for one entry
ScanStep(e, target_dt, st) ==
    IF ~IsRebalanceEntry(e) THEN st
    ELSE ScanEvent(e.value, ParseDate(e.value.date), target_dt, st)

\* lines 190-198: the loop over portfolio_data.items(), from entry i on
RECURSIVE ScanRebalances(_, _, _, _)
ScanRebalances(portfolio_data, i, target_dt, st) ==
    IF i > Len(portfolio_data) \/ st.exc # "none" THEN st
    ELSE ScanRebalances(portfolio_data, i + 1, target_dt,
                        ScanStep(portfolio_data[i], target_dt, st))

\* line 200: return active_rebalance (or the ValueError of a date in the loop)
\* (active_rebalance is None or the dict value of portfolio_data, line 197)
ScanResult(st) ==
    IF st.exc # "none" THEN Raise(st.exc, {})
    ELSE IF st.active_rebalance = None THEN Return(None, {})
    ELSE ReturnStored(st.active_rebalance, {})

\* lines 186-200, with target_date parsed to target_dt
ActiveRebalanceFor(portfolio_data, target_dt) ==
    IF ~target_dt.ok THEN Raise("ValueError", {})
    ELSE ScanResult(ScanRebalances(portfolio_data, 1, target_dt,
             [active_rebalance |-> None, active_date |-> None, exc |-> "none"]))

\* Config._get_active_rebalance_for_date
_get_active_rebalance_for_date(portfolio_data, target_date) ==
    ActiveRebalanceFor(portfolio_data, ParseDate(target_date))

TickersOfActive_empty_as_no_rebalance(active) ==
    IF active.exc # "none" THEN active
    ELSE IF active.val = None \/ GetTickers(active.val) = EmptyDict
    THEN Return({}, {"warning: no rebalance for date"})
    ELSE Return(DOMAIN GetTickers(active.val), {})

\* lines 117-123: the tickers of the active rebalance found (the list of keys
\* as a set: a dict's keys are distinct and no caller depends on their order)
TickersOfActive(active) ==
    IF active.exc # "none" THEN active
    ELSE IF active.val = None THEN Return({}, {"warning: no rebalance for date"})
    ELSE Return(DOMAIN GetTickers(active.val), {})

\* Config.get_portfolio_tickers_for_date
get_portfolio_tickers_for_date(data, portfolio_name, target_date) ==
    IF portfolio_name \notin DOMAIN data
    THEN Return({}, {"error: portfolio not found"})
    ELSE TickersOfActive(_get_active_rebalance_for_date(data[portfolio_name], target_date))

\* line 151, mutated: zero weights are dropped with the None ones
FilterNone_falsy(weights) ==
    Restrict(weights, {t \in DOMAIN weights : weights[t] # None /\ weights[t] # Zero})

\* line 151: {ticker: weight for ticker, weight in weights.items() if weight is not None}
FilterNone(weights) ==
    Restrict(weights, {t \in DOMAIN weights : weights[t] # None})

\* lines 145-158, mutated: the stored mapping itself is returned when it has
\* no None to filter
WeightsOfActive_stored_when_unfiltered(active) ==
    IF active.exc # "none" THEN active
    ELSE IF active.val = None THEN Return(EmptyDict, {"warning: no rebalance for date"})
    ELSE IF FilterNone(GetTickers(active.val)) = GetTickers(active.val)
    THEN ReturnStored(GetTickers(active.val), {})
    ELSE Return(FilterNone(GetTickers(active.val)), {})

\* lines 145-158: the weights of the active rebalance found (line 151 builds
\* a new dict)
WeightsOfActive(active) ==
    IF active.exc # "none" THEN active
    ELSE IF active.val = None THEN Return(EmptyDict, {"warning: no rebalance for date"})
    ELSE Return(FilterNone(GetTickers(active.val)), {})

\* Config.get_portfolio_weights_for_date
get_portfolio_weights_for_date(data, portfolio_name, target_date) ==
    IF portfolio_name \notin DOMAIN data
    THEN Return(EmptyDict, {"error: portfolio not found"})
    ELSE WeightsOfActive(_get_active_rebalance_for_date(data[portfolio_name], target_date))

\* lines 84-89: the dates of the rebalancing entries, in the order of the entries
DatesOfEntries(entries) == [i \in 1..Len(entries) |-> entries[i].value.date]

\* Config.get_portfolio_rebalance_dates: the date strings, sorted as strings
get_portfolio_rebalance_dates(data, portfolio_name) ==
    IF portfolio_name \notin DOMAIN data
    THEN Return(<< >>, {"error: portfolio not found"})
    ELSE Return(SortSeq(DatesOfEntries(SelectSeq(data[portfolio_name], IsRebalanceEntry)),
                        StrLt), {})

\* lines 215-221: the tickers at the first of the rebalance dates
TickersAtFirstDate(data, portfolio_name, rebalance_dates) ==
    IF rebalance_dates.val = << >>
    THEN After(rebalance_dates, Return({}, {"error: portfolio not found or without rebalances"}))
    ELSE After(rebalance_dates,
               get_portfolio_tickers_for_date(data, portfolio_name, rebalance_dates.val[1]))

\* Config.get_portfolio_tickers
get_portfolio_tickers(data, portfolio_name) ==
    TickersAtFirstDate(data, portfolio_name, get_portfolio_rebalance_dates(data, portfolio_name))

\* lines 235-241: the weights at the first of the rebalance dates
WeightsAtFirstDate(data, portfolio_name, rebalance_dates) ==
    IF rebalance_dates.val = << >>
    THEN After(rebalance_dates,
               Return(EmptyDict, {"error: portfolio not found or without rebalances"}))
    ELSE After(rebalance_dates,
               get_portfolio_weights_for_date(data, portfolio_name, rebalance_dates.val[1]))

\* Config.get_portfolio_weights
get_portfolio_weights(data, portfolio_name) ==
    WeightsAtFirstDate(data, portfolio_name, get_portfolio_rebalance_dates(data, portfolio_name))

-----------------------------------------------------------------------------
(* CapitalizationMOEX (src/src/creating_portfolio/capitalization_moex.py) *)

\* an ISSUECAPITALIZATION cell holding the empty string
EmptyString == [str |-> ""]

\* lines 24-44: the market_df after one request whose outcome is response;
\* only a 200 response assigns self.market_df, an error status or an
\* exception of requests.get is logged and leaves it as it was
get_all_capitalization_data(df, response) ==
    IF response.kind = "raises" THEN df
    ELSE IF response.status_code = 200 THEN response.data
    ELSE df

get_ticker_capitalization_missing_as_zero(df, ticker) ==
    IF df = None THEN None
    ELSE IF ticker \notin DOMAIN df THEN None
    ELSE IF df[ticker] = NaN \/ df[ticker] = EmptyString THEN Zero
    ELSE df[ticker]

\* CapitalizationMOEX.get_ticker_capitalization: df is None (never loaded) or
\* a function SECID -> ISSUECAPITALIZATION cell (a number, NaN or '')
get_ticker_capitalization(df, ticker) ==
    IF df = None THEN None
    ELSE IF ticker \notin DOMAIN df THEN None
    ELSE IF df[ticker] = NaN \/ df[ticker] = EmptyString THEN None
    ELSE df[ticker]

RequestsOfLookup_fetches_when_not_loaded(df) == IF df = None THEN 1 ELSE 0

\* lines 56-58 and 84-86: a lookup made while market_df is None logs "Data
\* not loaded" and returns; no lookup calls get_all_capitalization_data, so
\* the requests a lookup sends are none
RequestsOfLookup(df) == 0

\* CapitalizationMOEX.get_multiple_tickers_capitalization
get_multiple_tickers_capitalization(df, tickers) ==
    IF df = None THEN EmptyDict
    ELSE [t \in tickers |-> get_ticker_capitalization(df, t)]

-----------------------------------------------------------------------------
(* IndexWeightsCalculator                                                  *)
(* (src/src/creating_portfolio/calculate_weights_portfolio.py)             *)

\* line 203, mutated: the weights are returned as they are
DivideByTotal_identity(weights, total_weight) == weights

\* line 203: {ticker: weight / total_weight for ticker, weight in weights.items()}
DivideByTotal(weights, total_weight) ==
    [t \in DOMAIN weights |-> RDiv(weights[t], total_weight)]

\* lines 199-201, mutated: no zero test, the zero total divides (ZeroDivisionError)
NormalizeZeroTotal_divides(weights) == Raise("ZeroDivisionError", {})

\* lines 199-201: total_weight == 0 logs an error and returns {}
NormalizeZeroTotal(weights) == Return(EmptyDict, {"error: total weight is zero"})

\* lines 197-211: the weights divided by their total
NormalizeByTotal(weights, total_weight) ==
    IF total_weight = Zero THEN NormalizeZeroTotal(weights)
    ELSE Return(DivideByTotal(weights, total_weight), {})

\* IndexWeightsCalculator._normalize_weights
_normalize_weights(weights) ==
    IF DOMAIN weights = {} THEN Return(EmptyDict, {})
    ELSE NormalizeByTotal(weights, SumValues(weights))

\* line 161, mutated: tickers without capitalization count as zero
ValidCapitalizations_zero_fill(capitalizations) ==
    [t \in DOMAIN capitalizations |->
        IF capitalizations[t] = None THEN Zero ELSE capitalizations[t]]

\* line 161: {ticker: cap for ticker, cap in capitalizations.items() if cap is not None}
ValidCapitalizations(capitalizations) ==
    Restrict(capitalizations, {t \in DOMAIN capitalizations : capitalizations[t] # None})

\* lines 167-182, mutated: the capitalizations are returned undivided
CapitalizationShares_undivided(valid_capitalizations, total_capitalization) ==
    IF total_capitalization = Zero
    THEN Return(EmptyDict, {"warning: total capitalization is zero"})
    ELSE Return(valid_capitalizations, {})

\* lines 167-171, mutated: a zero total gives every valid ticker an equal share
CapitalizationShares_zero_total_equal(valid_capitalizations, total_capitalization) ==
    IF total_capitalization = Zero
    THEN Return([t \in DOMAIN valid_capitalizations |->
                    Rat(1, Cardinality(DOMAIN valid_capitalizations))], {})
    ELSE Return([t \in DOMAIN valid_capitalizations |->
                    RDiv(valid_capitalizations[t], total_capitalization)], {})

\* lines 167-182: each valid capitalization divided by their total
CapitalizationShares(valid_capitalizations, total_capitalization) ==
    IF total_capitalization = Zero
    THEN Return(EmptyDict, {"warning: total capitalization is zero"})
    ELSE Return([t \in DOMAIN valid_capitalizations |->
                    RDiv(valid_capitalizations[t], total_capitalization)], {})

\* lines 163-182
WeightsOfValid(valid_capitalizations) ==
    IF DOMAIN valid_capitalizations = {}
    THEN Return(EmptyDict, {"warning: no valid capitalization data"})
    ELSE CapitalizationShares(valid_capitalizations, SumValues(valid_capitalizations))

\* IndexWeightsCalculator._calculate_capitalization_weights_for_tickers
_calculate_capitalization_weights_for_tickers(df, tickers) ==
    IF tickers = {} THEN Return(EmptyDict, {})
    ELSE WeightsOfValid(ValidCapitalizations(get_multiple_tickers_capitalization(df, tickers)))

\* line 134: {**predefined_weights, **scaled_cap_weights}
Merge(a, b) ==
    [t \in DOMAIN a \cup DOMAIN b |-> IF t \in DOMAIN b THEN b[t] ELSE a[t]]

\* lines 130-131, mutated: the capitalization weights are not scaled
ScaleCapWeights_unscaled(cap_weights, remaining_weight, cap_sum) == cap_weights

\* lines 130-131: scale_factor = remaining_weight / cap_sum;
\*                {ticker: weight * scale_factor for ...}
ScaleCapWeights(cap_weights, remaining_weight, cap_sum) ==
    LET scale_factor == RDiv(remaining_weight, cap_sum)
    IN  [t \in DOMAIN cap_weights |-> RMul(cap_weights[t], scale_factor)]

\* line 91, mutated: every ticker counts as without weight
TickersWithoutWeights_all(tickers, predefined_weights) == tickers

\* line 91: [ticker for ticker in tickers if ticker not in predefined_weights]
TickersWithoutWeights(tickers, predefined_weights) ==
    {t \in tickers : t \notin DOMAIN predefined_weights}

\* lines 125-142, mutated: no test of remaining_weight <= 0
MixScaled_no_guard(predefined_weights, cap_weights, remaining_weight, cap_sum) ==
    _normalize_weights(
        Merge(predefined_weights, ScaleCapWeights(cap_weights, remaining_weight, cap_sum)))

\* lines 125-142, mutated: the test is remaining_weight < 0
MixScaled_strict_guard(predefined_weights, cap_weights, remaining_weight, cap_sum) ==
    IF RLt(remaining_weight, Zero)
    THEN After(Return(None, {"warning: predefined weights >= 1.0"}),
               _normalize_weights(predefined_weights))
    ELSE _normalize_weights(
             Merge(predefined_weights, ScaleCapWeights(cap_weights, remaining_weight, cap_sum)))

\* lines 125-142: the mixed case with cap_weights not empty
MixScaled(predefined_weights, cap_weights, remaining_weight, cap_sum) ==
    IF RLe(remaining_weight, Zero)
    THEN After(Return(None, {"warning: predefined weights >= 1.0"}),
               _normalize_weights(predefined_weights))
    ELSE _normalize_weights(
             Merge(predefined_weights, ScaleCapWeights(cap_weights, remaining_weight, cap_sum)))

\* lines 112-114, mutated: the fallback returns the predefined weights as they are
MixWithCap_fallback_unnormalized(predefined_weights, cap) ==
    IF DOMAIN cap.val = {}
    THEN After(cap, Return(predefined_weights, {"warning: predefined weights only"}))
    ELSE MixScaled(predefined_weights, cap.val,
                   RSub(One, SumValues(predefined_weights)), SumValues(cap.val))

\* lines 112-142: the mixed case, cap the result of the capitalization weights
MixWithCap(predefined_weights, cap) ==
    IF DOMAIN cap.val = {}
    THEN After(cap, After(Return(None, {"warning: predefined weights only"}),
                          _normalize_weights(predefined_weights)))
    ELSE MixScaled(predefined_weights, cap.val,
                   RSub(One, SumValues(predefined_weights)), SumValues(cap.val))

\* lines 97-142, with the two groups of tickers of lines 90-91
MixGroups(df, tickers, predefined_weights, tickers_with_weights, tickers_without_weights) ==
    IF tickers_without_weights = {}
    THEN _normalize_weights(predefined_weights)
    ELSE IF tickers_with_weights = {}
    THEN _calculate_capitalization_weights_for_tickers(df, tickers)
    ELSE MixWithCap(predefined_weights,
             _calculate_capitalization_weights_for_tickers(df, tickers_without_weights))

\* IndexWeightsCalculator._calculate_mixed_weights
_calculate_mixed_weights(df, tickers, predefined_weights) ==
    MixGroups(df, tickers, predefined_weights, DOMAIN predefined_weights,
              TickersWithoutWeights(tickers, predefined_weights))

\* lines 47-54, mutated: the predefined weights are not passed on
WeightsOfResolved_no_fixed(df, tickers, predefined_weights) ==
    IF tickers.exc # "none" THEN tickers
    ELSE IF predefined_weights.exc # "none" THEN predefined_weights
    ELSE After(tickers, After(predefined_weights,
             IF tickers.val = {}
             THEN Return(EmptyDict, {"warning: no tickers for date"})
             ELSE _calculate_mixed_weights(df, tickers.val, EmptyDict)))

\* lines 47-54: the weights from the resolved tickers and predefined weights
WeightsOfResolved(df, tickers, predefined_weights) ==
    IF tickers.exc # "none" THEN tickers
    ELSE IF predefined_weights.exc # "none" THEN predefined_weights
    ELSE After(tickers, After(predefined_weights,
             IF tickers.val = {}
             THEN Return(EmptyDict, {"warning: no tickers for date"})
             ELSE _calculate_mixed_weights(df, tickers.val, predefined_weights.val)))

\* IndexWeightsCalculator.calculate_portfolio_weights_for_date
\* (self.portfolios is the copy of Config._tickers_data taken at line 20:
\* the same keys)
calculate_portfolio_weights_for_date(data, df, portfolio_name, target_date) ==
    IF portfolio_name \notin DOMAIN data
    THEN Return(EmptyDict, {"error: portfolio not found"})
    ELSE WeightsOfResolved(df,
             get_portfolio_tickers_for_date(data, portfolio_name, target_date),
             get_portfolio_weights_for_date(data, portfolio_name, target_date))

\* lines 68-74: the weights at the first of the rebalance dates
CalculatedAtFirstDate(data, df, portfolio_name, rebalance_dates) ==
    IF rebalance_dates.val = << >>
    THEN After(rebalance_dates,
               Return(EmptyDict, {"error: portfolio not found or without rebalances"}))
    ELSE After(rebalance_dates,
               calculate_portfolio_weights_for_date(data, df, portfolio_name,
                                                    rebalance_dates.val[1]))

\* IndexWeightsCalculator.calculate_portfolio_weights
calculate_portfolio_weights(data, df, portfolio_name) ==
    CalculatedAtFirstDate(data, df, portfolio_name,
                          get_portfolio_rebalance_dates(data, portfolio_name))

\* lines 230-233, mutated: an empty result is added like any other
AddPortfolio_keeps_empty(portfolio_name, portfolio_weights, st) ==
    IF portfolio_weights.exc # "none"
    THEN Raise(portfolio_weights.exc, st.log \cup portfolio_weights.log)
    ELSE Return(Merge(st.val, [p \in {portfolio_name} |-> portfolio_weights.val]),
                st.log \cup portfolio_weights.log)

\* lines 230-233: the result of one portfolio added to the result so far, st
AddPortfolio(portfolio_name, portfolio_weights, st) ==
    IF portfolio_weights.exc # "none"
    THEN Raise(portfolio_weights.exc, st.log \cup portfolio_weights.log)
    ELSE IF DOMAIN portfolio_weights.val # {}
    THEN Return(Merge(st.val, [p \in {portfolio_name} |-> portfolio_weights.val]),
                st.log \cup portfolio_weights.log)
    ELSE Return(st.val, st.log \cup portfolio_weights.log \cup {"warning: portfolio skipped"})

\* lines 229-233: the body of the loop for one portfolio
AllPortfoliosStep(data, df, target_date, portfolio_name, st) ==
    AddPortfolio(portfolio_name,
        calculate_portfolio_weights_for_date(data, df, portfolio_name, target_date), st)

\* the next key of self.portfolios.keys() among those not done
NextPortfolio(todo) == CHOOSE p \in todo : TRUE

\* lines 228-233: the loop over self.portfolios.keys(), over the names in todo
RECURSIVE AllPortfoliosLoop(_, _, _, _, _)
AllPortfoliosLoop(data, df, target_date, todo, st) ==
    IF todo = {} \/ st.exc # "none" THEN st
    ELSE AllPortfoliosLoop(data, df, target_date, todo \ {NextPortfolio(todo)},
             AllPortfoliosStep(data, df, target_date, NextPortfolio(todo), st))

\* IndexWeightsCalculator.calculate_all_portfolios_weights_for_date
calculate_all_portfolios_weights_for_date(data, df, target_date) ==
    AllPortfoliosLoop(data, df, target_date, DOMAIN data, Return(EmptyDict, {}))

\* lines 251-256: the loop over self.portfolios.keys(), over the names in todo
RECURSIVE AllPortfoliosFirstDateLoop(_, _, _, _)
AllPortfoliosFirstDateLoop(data, df, todo, st) ==
    IF todo = {} \/ st.exc # "none" THEN st
    ELSE AllPortfoliosFirstDateLoop(data, df, todo \ {NextPortfolio(todo)},
             AddPortfolio(NextPortfolio(todo),
                          calculate_portfolio_weights(data, df, NextPortfolio(todo)), st))

\* IndexWeightsCalculator.calculate_all_portfolios_weights
calculate_all_portfolios_weights(data, df) ==
    AllPortfoliosFirstDateLoop(data, df, DOMAIN data, Return(EmptyDict, {}))

-----------------------------------------------------------------------------
(* The configurations, capitalization tables and arguments enumerated *)

Tickers == {"A", "B", "C"}

\* explicit weights of the configuration: 0, 0.4, 0.6, and 1.5 (more than 1)
FixedWeights == {Zero, Rat(4, 10), Rat(6, 10), Rat(3, 2)}

\* ISSUECAPITALIZATION values
CapValues == {Zero, Rat(300, 1), Rat(700, 1)}

\* the ticker -> weight-or-None maps of an event over the tickers T
AllocationsOver(T) == UNION {[S -> FixedWeights \cup {None}] : S \in SUBSET T}

\* the loaded tables over the tickers T, and None: the bulk fetch failed
CapTablesOver(T) == {None} \cup UNION {[S -> CapValues \cup {NaN}] : S \in SUBSET T}

\* dicts of explicit weights over the tickers T
WeightsOver(T) == UNION {[S -> FixedWeights] : S \in SUBSET T}

BoundedSeq(S, n) == UNION {[1..k -> S] : k \in 0..n}

Event(date, allocations) == [type |-> "dict", date |-> date, tickers |-> allocations]

Entry(i, value) == [key |-> <<"rebalance_date_", i>>, value |-> value]

\* the mapping of a portfolio whose rebalance_date_<i> entries are events, in order
PortfolioOf(events) == [i \in 1..Len(events) |-> Entry(i, events[i])]

EventDates == {D_2019_01_01, D_2020_01_01, D_2021_06_01}

TargetDates == {D_2018_12_31, D_2019_01_01, D_2020_06_01, D_2021_01_01, D_2021_06_01}

A_fixed_B_unset == [t \in {"A", "B"} |-> IF t = "A" THEN Rat(6, 10) ELSE None]
A_unset_B_unset == [t \in {"A", "B"} |-> None]
C_zero == [t \in {"C"} |-> Zero]

\* allocations of the multi-event portfolios
ResolverAllocations == {A_fixed_B_unset, A_unset_B_unset, C_zero, EmptyDict}

ResolverEvents == {Event(d, a) : d \in EventDates, a \in ResolverAllocations}

A300_B700 == [t \in {"A", "B"} |-> IF t = "A" THEN Rat(300, 1) ELSE Rat(700, 1)]
A300_B700_C700 == [t \in Tickers |-> IF t = "A" THEN Rat(300, 1) ELSE Rat(700, 1)]
ANaN_B0_C300 == [t \in Tickers |-> IF t = "A" THEN NaN ELSE IF t = "B" THEN Zero ELSE Rat(300, 1)]
AllZero == [t \in Tickers |-> Zero]

AEmpty_B700 == [t \in {"A", "B"} |-> IF t = "A" THEN EmptyString ELSE Rat(700, 1)]

\* what requests.get (line 25) can produce: a 200 response with the table, an
\* error status, an exception
Responses ==
    {[kind |-> "response", status_code |-> 200, data |-> A300_B700],
     [kind |-> "response", status_code |-> 200, data |-> ANaN_B0_C300],
     [kind |-> "response", status_code |-> 500, data |-> None],
     [kind |-> "raises", status_code |-> 0, data |-> None]}

\* the capitalization tables of the configurations run through the whole
\* pipeline: never loaded, C missing, all known, a NaN and a zero, all zero
PipelineCapTables == {None, A300_B700, A300_B700_C700, ANaN_B0_C300, AllZero}

\* portfolio_2: a key that is no rebalance date, a rebalance entry without a
\* date, and one event with a single fixed ticker
Portfolio2 ==
    << [key |-> <<"description", 0>>, value |-> [type |-> "str"]],
       [key |-> <<"rebalance_date_", 0>>,
        value |-> [type |-> "dict", tickers |-> A_unset_B_unset]],
       Entry(1, Event(D_2020_01_01, [t \in {"A"} |-> One])) >>

TickersData(portfolio_1) ==
    [p \in {"portfolio_1", "portfolio_2"} |->
        IF p = "portfolio_1" THEN portfolio_1 ELSE Portfolio2]

\* portfolio_1 with up to MaxEvents events in any order, dates repeated or not
ResolverConfigs ==
    {<<TickersData(PortfolioOf(events)), A300_B700>> :
        events \in BoundedSeq(ResolverEvents, MaxEvents)}

\* portfolio_1 with one event of any allocation, under each pipeline table
MixConfigs ==
    {<<TickersData(PortfolioOf(<<Event(D_2020_01_01, a)>>)), df>> :
        a \in AllocationsOver(Tickers), df \in PipelineCapTables}

\* events dated 2020-9-01 and 2020-10-01, written without the leading zero
UnpaddedEvents ==
    {Event(d, a) : d \in {D_2020_9_01, D_2020_10_01},
                   a \in {A_fixed_B_unset, A_unset_B_unset}}

\* portfolio_1 with two such events in any order
UnpaddedConfigs ==
    {<<TickersData(PortfolioOf(<<e1, e2>>)), A300_B700>> :
        e1 \in UnpaddedEvents, e2 \in UnpaddedEvents}

\* the content of a configuration file: start_date and the two portfolios
FileData(portfolio_1) ==
    [k \in {"start_date", "portfolio_1", "portfolio_2"} |->
        IF k = "start_date" THEN D_2019_01_01 ELSE TickersData(portfolio_1)[k]]

\* events of a date that parses and of a date that does not
LoadedEvents ==
    {Event(D_2020_01_01, A_fixed_B_unset), Event(D_2020_13_01, A_unset_B_unset),
     Event(D_2020_13_01, C_zero)}

\* the configuration files: a mapping whose portfolio_1 has one or two of
\* these events, a file that is no YAML, and a YAML file that is no mapping
ConfigFiles ==
    {[kind |-> "mapping", data |-> FileData(PortfolioOf(events))] :
        events \in BoundedSeq(LoadedEvents, 2) \ {<< >>}}
    \cup {[kind |-> "yaml error"], [kind |-> "not a mapping"]}

\* portfolio names passed by callers: the two configured and an unknown one
PortfolioArgs == {"portfolio_1", "portfolio_2", "portfolio_x"}

NoCall ==
    [op |-> "none", portfolio_name |-> None, target_date |-> None,
     tickers |-> None, weights |-> None, ticker |-> None]

-----------------------------------------------------------------------------
(* MoexDataLoader (src/src/loading_quotations/moex.py) *)

\* no load_all_tickers call has been made
NoLoad ==
    [phase |-> "idle", futures |-> << >>, yielded |-> {},
     quotations_dict |-> EmptyDict, failed_tickers |-> << >>]

-----------------------------------------------------------------------------
(* The state machine: the state after construction, then calls made one    *)
(* after the other by a single-threaded caller                             *)

\* Config.__init__ (line 28) and IndexWeightsCalculator.__init__ (lines 18-23)
\* have run: the definitions are loaded, the bulk fetch has set market_df or
\* failed and left it None
Init ==
    /\ \E c \in ResolverConfigs \cup MixConfigs \cup UnpaddedConfigs :
           tickers_data = c[1] /\ market_df = c[2]
    /\ call = NoCall
    /\ ret = Return(None, {})
    /\ fetches = 1
    /\ moex = NoLoad

Call_get_active_rebalance_for_date ==
    \E p \in DOMAIN tickers_data, t \in TargetDates :
        /\ call.op = "none"
        /\ call' = [NoCall EXCEPT !.op = "_get_active_rebalance_for_date",
                                  !.portfolio_name = p, !.target_date = t]
        /\ ret' = _get_active_rebalance_for_date(tickers_data[p], t)
        /\ UNCHANGED <<tickers_data, market_df, fetches, moex>>

Call_get_portfolio_tickers_for_date ==
    \E p \in PortfolioArgs, t \in TargetDates :
        /\ call.op = "none"
        /\ call' = [NoCall EXCEPT !.op = "get_portfolio_tickers_for_date",
                                  !.portfolio_name = p, !.target_date = t]
        /\ ret' = get_portfolio_tickers_for_date(tickers_data, p, t)
        /\ UNCHANGED <<tickers_data, market_df, fetches, moex>>

Call_get_portfolio_weights_for_date ==
    \E p \in PortfolioArgs, t \in TargetDates :
        /\ call.op = "none"
        /\ call' = [NoCall EXCEPT !.op = "get_portfolio_weights_for_date",
                                  !.portfolio_name = p, !.target_date = t]
        /\ ret' = get_portfolio_weights_for_date(tickers_data, p, t)
        /\ UNCHANGED <<tickers_data, market_df, fetches, moex>>

Call_calculate_portfolio_weights_for_date ==
    \E p \in PortfolioArgs, t \in TargetDates :
        /\ call.op = "none"
        /\ call' = [NoCall EXCEPT !.op = "calculate_portfolio_weights_for_date",
                                  !.portfolio_name = p, !.target_date = t]
        /\ ret' = calculate_portfolio_weights_for_date(tickers_data, market_df, p, t)
        /\ fetches' = fetches + RequestsOfLookup(market_df)
        /\ UNCHANGED <<tickers_data, market_df, moex>>

Call_calculate_all_portfolios_weights_for_date ==
    \E t \in TargetDates :
        /\ call.op = "none"
        /\ call' = [NoCall EXCEPT !.op = "calculate_all_portfolios_weights_for_date",
                                  !.target_date = t]
        /\ ret' = calculate_all_portfolios_weights_for_date(tickers_data, market_df, t)
        /\ fetches' = fetches + RequestsOfLookup(market_df)
        /\ UNCHANGED <<tickers_data, market_df, moex>>

Call_get_portfolio_rebalance_dates ==
    \E p \in PortfolioArgs :
        /\ call.op = "none"
        /\ call' = [NoCall EXCEPT !.op = "get_portfolio_rebalance_dates",
                                  !.portfolio_name = p]
        /\ ret' = get_portfolio_rebalance_dates(tickers_data, p)
        /\ UNCHANGED <<tickers_data, market_df, fetches, moex>>

Call_get_portfolio_tickers ==
    \E p \in PortfolioArgs :
        /\ call.op = "none"
        /\ call' = [NoCall EXCEPT !.op = "get_portfolio_tickers", !.portfolio_name = p]
        /\ ret' = get_portfolio_tickers(tickers_data, p)
        /\ UNCHANGED <<tickers_data, market_df, fetches, moex>>

Call_get_portfolio_weights ==
    \E p \in PortfolioArgs :
        /\ call.op = "none"
        /\ call' = [NoCall EXCEPT !.op = "get_portfolio_weights", !.portfolio_name = p]
        /\ ret' = get_portfolio_weights(tickers_data, p)
        /\ UNCHANGED <<tickers_data, market_df, fetches, moex>>

Call_calculate_portfolio_weights ==
    \E p \in PortfolioArgs :
        /\ call.op = "none"
        /\ call' = [NoCall EXCEPT !.op = "calculate_portfolio_weights",
                                  !.portfolio_name = p]
        /\ ret' = calculate_portfolio_weights(tickers_data, market_df, p)
        /\ fetches' = fetches + RequestsOfLookup(market_df)
        /\ UNCHANGED <<tickers_data, market_df, moex>>

Call_calculate_all_portfolios_weights ==
    /\ call.op = "none"
    /\ call' = [NoCall EXCEPT !.op = "calculate_all_portfolios_weights"]
    /\ ret' = calculate_all_portfolios_weights(tickers_data, market_df)
    /\ fetches' = fetches + RequestsOfLookup(market_df)
    /\ UNCHANGED <<tickers_data, market_df, moex>>

\* the caller takes the result; the next call starts from there
ReturnToCaller ==
    /\ call.op # "none"
    /\ call' = NoCall
    /\ ret' = Return(None, {})
    /\ UNCHANGED <<tickers_data, market_df, fetches, moex>>

Next ==
    \/ Call_get_active_rebalance_for_date
    \/ Call_get_portfolio_tickers_for_date
    \/ Call_get_portfolio_weights_for_date
    \/ Call_calculate_portfolio_weights_for_date
    \/ Call_calculate_all_portfolios_weights_for_date
    \/ Call_get_portfolio_rebalance_dates
    \/ Call_get_portfolio_tickers
    \/ Call_get_portfolio_weights
    \/ Call_calculate_portfolio_weights
    \/ Call_calculate_all_portfolios_weights
    \/ ReturnToCaller

Spec == Init /\ [][Next]_vars

-----------------------------------------------------------------------------
(* The same calls on what Config._load_tickers_data loads from a file *)

\* Config.__init__ (line 28) has loaded a configuration file
InitLoad ==
    /\ \E file \in ConfigFiles : tickers_data = _load_tickers_data(file).val
    /\ market_df = A300_B700
    /\ call = NoCall
    /\ ret = Return(None, {})
    /\ fetches = 1
    /\ moex = NoLoad

SpecLoad == InitLoad /\ [][Next]_vars

-----------------------------------------------------------------------------
(* The calculator from its construction on *)

\* no IndexWeightsCalculator exists yet
InitNew ==
    /\ tickers_data = None
    /\ market_df = None
    /\ call = NoCall
    /\ ret = Return(None, {})
    /\ fetches = 0
    /\ moex = NoLoad

\* IndexWeightsCalculator.__init__ (lines 18-23): Config() loads the file,
\* CapitalizationMOEX() starts with market_df None, and line 23 sends the
\* bulk request
Construct ==
    \E file \in ConfigFiles, response \in Responses :
        /\ tickers_data = None
        /\ call.op = "none"
        /\ tickers_data' = _load_tickers_data(file).val
        /\ market_df' = get_all_capitalization_data(None, response)
        /\ fetches' = fetches + 1
        /\ call' = [NoCall EXCEPT !.op = "__init__"]
        /\ ret' = Return(None, {})
        /\ UNCHANGED moex

\* the methods are called on a constructed calculator
NextConstructed ==
    \/ Construct
    \/ (tickers_data # None /\ Next)

SpecConstruct == InitNew /\ [][NextConstructed]_vars

-----------------------------------------------------------------------------
(* The calculator's private functions on enumerated arguments *)

\* one configuration, every capitalization table over Tickers
InitMix ==
    /\ tickers_data = TickersData(PortfolioOf(<<Event(D_2020_01_01, A_fixed_B_unset)>>))
    /\ market_df \in CapTablesOver(Tickers)
    /\ call = NoCall
    /\ ret = Return(None, {})
    /\ fetches = 1
    /\ moex = NoLoad

\* the arguments calculate_portfolio_weights_for_date passes: the keys of an
\* allocation and its entries that are not None; and the empty ticker list
Call_calculate_mixed_weights ==
    \E a \in AllocationsOver(Tickers) :
        /\ call.op = "none"
        /\ call' = [NoCall EXCEPT !.op = "_calculate_mixed_weights",
                                  !.tickers = DOMAIN a, !.weights = FilterNone(a)]
        /\ ret' = _calculate_mixed_weights(market_df, DOMAIN a, FilterNone(a))
        /\ fetches' = fetches + RequestsOfLookup(market_df)
        /\ UNCHANGED <<tickers_data, market_df, moex>>

Call_calculate_capitalization_weights_for_tickers ==
    \E T \in SUBSET Tickers :
        /\ call.op = "none"
        /\ call' = [NoCall EXCEPT !.op = "_calculate_capitalization_weights_for_tickers",
                                  !.tickers = T]
        /\ ret' = _calculate_capitalization_weights_for_tickers(market_df, T)
        /\ fetches' = fetches + RequestsOfLookup(market_df)
        /\ UNCHANGED <<tickers_data, market_df, moex>>

Call_normalize_weights ==
    \E w \in WeightsOver(Tickers) :
        /\ call.op = "none"
        /\ call' = [NoCall EXCEPT !.op = "_normalize_weights", !.weights = w]
        /\ ret' = _normalize_weights(w)
        /\ UNCHANGED <<tickers_data, market_df, fetches, moex>>

NextMix ==
    \/ Call_calculate_mixed_weights
    \/ Call_calculate_capitalization_weights_for_tickers
    \/ Call_normalize_weights
    \/ ReturnToCaller

SpecMix == InitMix /\ [][NextMix]_vars

-----------------------------------------------------------------------------
(* The capitalization loader alone *)

\* the cells of a fetched table: numbers, NaN and the empty string
CellTables ==
    UNION {[S -> {Zero, Rat(300, 1), NaN, EmptyString}] : S \in SUBSET {"A", "B"}}

\* what requests.get (line 25) can produce, over these tables
CapResponses ==
    {[kind |-> "response", status_code |-> 200, data |-> t] : t \in CellTables}
    \cup {[kind |-> "response", status_code |-> 500, data |-> None],
          [kind |-> "raises", status_code |-> 0, data |-> None]}

\* lines 35-43: the frame get_all_capitalization_data returns, the fetched
\* table or an empty DataFrame
ReturnedFrame(response) ==
    IF response.kind = "raises" THEN Return(EmptyDict, {"error: requesting API"})
    ELSE IF response.status_code = 200 THEN Return(response.data, {"info: retrieved"})
    ELSE Return(EmptyDict, {"error: retrieving data"})

\* CapitalizationMOEX.__init__ (lines 13-15): market_df is None
InitCap ==
    /\ tickers_data = EmptyDict
    /\ market_df = None
    /\ call = NoCall
    /\ ret = Return(None, {})
    /\ fetches = 0
    /\ moex = NoLoad

Call_get_all_capitalization_data ==
    \E response \in CapResponses :
        /\ call.op = "none"
        /\ fetches < MaxFetches
        /\ call' = [NoCall EXCEPT !.op = "get_all_capitalization_data"]
        /\ market_df' = get_all_capitalization_data(market_df, response)
        /\ ret' = ReturnedFrame(response)
        /\ fetches' = fetches + 1
        /\ UNCHANGED <<tickers_data, moex>>

Call_get_ticker_capitalization ==
    \E t \in Tickers :
        /\ call.op = "none"
        /\ call' = [NoCall EXCEPT !.op = "get_ticker_capitalization", !.ticker = t]
        /\ ret' = Return(get_ticker_capitalization(market_df, t), {})
        /\ fetches' = fetches + RequestsOfLookup(market_df)
        /\ UNCHANGED <<tickers_data, market_df, moex>>

Call_get_multiple_tickers_capitalization ==
    \E T \in SUBSET Tickers :
        /\ call.op = "none"
        /\ call' = [NoCall EXCEPT !.op = "get_multiple_tickers_capitalization",
                                  !.tickers = T]
        /\ ret' = Return(get_multiple_tickers_capitalization(market_df, T), {})
        /\ fetches' = fetches + RequestsOfLookup(market_df)
        /\ UNCHANGED <<tickers_data, market_df, moex>>

NextCap ==
    \/ Call_get_all_capitalization_data
    \/ Call_get_ticker_capitalization
    \/ Call_get_multiple_tickers_capitalization
    \/ ReturnToCaller

SpecCap == InitCap /\ [][NextCap]_vars

-----------------------------------------------------------------------------
(* MoexDataLoader.load_all_tickers: one worker thread per future, each      *)
(* running load_ticker_data under its retry wrapper, and the calling thread *)
(* that takes the futures as they complete                                  *)

\* retries of load_ticker_data that fit in the 30 seconds of stop_after_delay
MaxAttempts == 2

\* tickers in the list passed to load_all_tickers
MaxTickers == 2

MoexTickers == {"SBER", "GAZP"}

\* the ticker lists passed, a ticker listed twice included
TickerLists == BoundedSeq(MoexTickers, MaxTickers)

\* a value not yet produced
Pending == [pending |-> TRUE]

\* a DataFrame of candles of a ticker from a source; it has rows
Frame(ticker, source) == [ticker |-> ticker, source |-> source, empty |-> FALSE]

\* what Ticker(ticker).candles(...) can do (lines 119-120): candles, an
\* empty frame, None, an exception
MoexalgoResponses == {"candles", "empty", "none", "raises"}

\* what apimoex.get_market_candles(...) can do (lines 167-173): candles, no
\* data, rows without the required columns, an exception
ApimoexResponses == {"candles", "no data", "unexpected format", "raises"}

\* MoexDataLoader.load_ticker_data_moexalgo: None for no data (line 126) and
\* for any exception (line 148), else the frame
load_ticker_data_moexalgo(ticker, response) ==
    IF response = "candles" THEN Frame(ticker, "moexalgo") ELSE None

\* MoexDataLoader.load_ticker_data_apimoex: None for no data (line 179), for
\* missing columns (line 186) and for any exception (line 199), else the frame
load_ticker_data_apimoex(ticker, response) ==
    IF response = "candles" THEN Frame(ticker, "apimoex") ELSE None

\* lines 236, 255 and 309: df is not None and not df.empty
IsNonEmptyFrame(df) == df # None /\ ~df.empty

\* a future just submitted: the first attempt of load_ticker_data is about
\* to ask moexalgo
Submitted(ticker) ==
    [ticker |-> ticker, pc |-> "moexalgo", attempt |-> 1,
     primary |-> Pending, fallback |-> Pending, result |-> Pending, exc |-> "none"]

\* lines 267-270, mutated: None is returned, as the docstring has it
BothSourcesFailed_returns_none(w, df) ==
    [w EXCEPT !.fallback = df, !.pc = "returned", !.result = None]

\* lines 267-270: both sources gave nothing; RuntimeError is raised into the
\* retry wrapper
BothSourcesFailed(w, df) ==
    [w EXCEPT !.fallback = df, !.pc = "retrying", !.exc = "RuntimeError"]

\* lines 229-245: the attempt asks moexalgo; a frame with rows is returned,
\* anything else sends the attempt on to apimoex
AfterMoexalgo(w, df) ==
    IF IsNonEmptyFrame(df)
    THEN [w EXCEPT !.primary = df, !.pc = "returned", !.result = df]
    ELSE [w EXCEPT !.primary = df, !.pc = "apimoex"]

\* lines 248-270: the attempt asks apimoex
AfterApimoex(w, df) ==
    IF IsNonEmptyFrame(df)
    THEN [w EXCEPT !.fallback = df, !.pc = "returned", !.result = df]
    ELSE BothSourcesFailed(w, df)

\* lines 316-318, mutated: a failed future empties quotations_dict
StoreResult_failure_discards(m, w) ==
    IF w.exc = "none" /\ IsNonEmptyFrame(w.result)
    THEN [m EXCEPT !.quotations_dict = Merge(m.quotations_dict, [t \in {w.ticker} |-> w.result])]
    ELSE [m EXCEPT !.quotations_dict = EmptyDict,
                   !.failed_tickers = Append(m.failed_tickers, w.ticker)]

\* lines 305-318: the body of the as_completed loop for the finished future
\* w; future.result() returns w.result or raises w.exc
StoreResult(m, w) ==
    IF w.exc = "none" /\ IsNonEmptyFrame(w.result)
    THEN [m EXCEPT !.quotations_dict = Merge(m.quotations_dict, [t \in {w.ticker} |-> w.result])]
    ELSE [m EXCEPT !.failed_tickers = Append(m.failed_tickers, w.ticker)]

InitMoex ==
    /\ tickers_data = EmptyDict
    /\ market_df = None
    /\ call = NoCall
    /\ ret = Return(None, {})
    /\ fetches = 0
    /\ moex = NoLoad

\* lines 290-304: load_all_tickers submits one load_ticker_data per entry of
\* tickers
Call_load_all_tickers ==
    \E tickers \in TickerLists :
        /\ moex.phase = "idle"
        /\ call' = [NoCall EXCEPT !.op = "load_all_tickers", !.tickers = tickers]
        /\ moex' = [NoLoad EXCEPT !.phase = "loading",
                                  !.futures = [i \in 1..Len(tickers) |-> Submitted(tickers[i])]]
        /\ UNCHANGED <<tickers_data, market_df, ret, fetches>>

\* a worker thread, lines 229-245
ConsultMoexalgo ==
    \E i \in DOMAIN moex.futures, response \in MoexalgoResponses :
        /\ moex.futures[i].pc = "moexalgo"
        /\ moex' = [moex EXCEPT !.futures[i] =
               AfterMoexalgo(@, load_ticker_data_moexalgo(@.ticker, response))]
        /\ UNCHANGED <<tickers_data, market_df, call, ret, fetches>>

\* a worker thread, lines 248-270
ConsultApimoex ==
    \E i \in DOMAIN moex.futures, response \in ApimoexResponses :
        /\ moex.futures[i].pc = "apimoex"
        /\ moex' = [moex EXCEPT !.futures[i] =
               AfterApimoex(@, load_ticker_data_apimoex(@.ticker, response))]
        /\ UNCHANGED <<tickers_data, market_df, call, ret, fetches>>

\* lines 203-209: the RuntimeError is retried after 2 seconds while the 30
\* seconds have not passed
Retry ==
    \E i \in DOMAIN moex.futures :
        /\ moex.futures[i].pc = "retrying"
        /\ moex.futures[i].attempt < MaxAttempts
        /\ moex' = [moex EXCEPT !.futures[i] =
               [Submitted(@.ticker) EXCEPT !.attempt = moex.futures[i].attempt + 1]]
        /\ UNCHANGED <<tickers_data, market_df, call, ret, fetches>>

\* lines 203-209: the 30 seconds have passed; the wrapper raises RetryError
\* and the future ends with it
StopRetrying ==
    \E i \in DOMAIN moex.futures :
        /\ moex.futures[i].pc = "retrying"
        /\ moex' = [moex EXCEPT !.futures[i].pc = "raised", !.futures[i].exc = "RetryError"]
        /\ UNCHANGED <<tickers_data, market_df, call, ret, fetches>>

\* the calling thread, lines 305-318: as_completed yields a finished future
\* not yielded before
ProcessCompleted ==
    \E i \in DOMAIN moex.futures :
        /\ moex.phase = "loading"
        /\ i \notin moex.yielded
        /\ moex.futures[i].pc \in {"returned", "raised"}
        /\ moex' = [StoreResult(moex, moex.futures[i]) EXCEPT !.yielded = @ \cup {i}]
        /\ UNCHANGED <<tickers_data, market_df, call, ret, fetches>>

\* lines 332-337 and 345-347, with quotations_dict empty
NoDataRetrieved ==
    /\ moex.phase = "loading"
    /\ moex.yielded = DOMAIN moex.futures
    /\ moex.quotations_dict = EmptyDict
    /\ moex' = [moex EXCEPT !.phase = "done"]
    /\ ret' = Raise("RuntimeError", {"error: no data was retrieved for any ticker"})
    /\ UNCHANGED <<tickers_data, market_df, call, fetches>>

\* line 339, after every future was taken
ReturnQuotations ==
    /\ moex.phase = "loading"
    /\ moex.yielded = DOMAIN moex.futures
    /\ moex.quotations_dict # EmptyDict
    /\ moex' = [moex EXCEPT !.phase = "done"]
    /\ ret' = Return(moex.quotations_dict, {})
    /\ UNCHANGED <<tickers_data, market_df, call, fetches>>

NextMoex ==
    \/ Call_load_all_tickers
    \/ ConsultMoexalgo
    \/ ConsultApimoex
    \/ Retry
    \/ StopRetrying
    \/ ProcessCompleted
    \/ NoDataRetrieved
    \/ ReturnQuotations

SpecMoex == InitMoex /\ [][NextMoex]_vars

-----------------------------------------------------------------------------
(* Vocabulary of the properties *)

\* the rebalancing events of a portfolio mapping
RebalanceEvents(portfolio_data) ==
    {portfolio_data[i].value :
        i \in {j \in 1..Len(portfolio_data) : IsRebalanceEntry(portfolio_data[j])}}

\* a calendar date as one number, ordered as the dates are
DateOrd(s) == ParseDate(s).y * 10000 + ParseDate(s).m * 100 + ParseDate(s).d

\* no two rebalancing entries of the portfolio carry the same date
UniqueEventDates(portfolio_data) ==
    \A i, j \in {k \in 1..Len(portfolio_data) : IsRebalanceEntry(portfolio_data[k])} :
        i # j => DateOrd(portfolio_data[i].value.date) # DateOrd(portfolio_data[j].value.date)

\* the events dated at or before the target
AtOrBefore(portfolio_data, target_date) ==
    {e \in RebalanceEvents(portfolio_data) : DateOrd(e.date) <= DateOrd(target_date)}

\* an event of S of the maximum date
Latest(S) == CHOOSE e \in S : \A f \in S : DateOrd(f.date) <= DateOrd(e.date)

\* the entries of an allocation that carry a weight
NonNull(allocations) ==
    [t \in {u \in DOMAIN allocations : allocations[u] # None} |-> allocations[t]]

ResolverOps ==
    {"_get_active_rebalance_for_date", "get_portfolio_tickers_for_date",
     "get_portfolio_weights_for_date"}

\* a resolver call on a configured portfolio has returned
ResolverCalled == call.op \in ResolverOps /\ call.portfolio_name \in DOMAIN tickers_data

\* what a resolver call returns when e is the event it selects
ResolvedFrom(e) ==
    CASE call.op = "_get_active_rebalance_for_date" -> e
      [] call.op = "get_portfolio_tickers_for_date" -> DOMAIN e.tickers
      [] call.op = "get_portfolio_weights_for_date" -> NonNull(e.tickers)

-----------------------------------------------------------------------------
(* C1 *)

\* C1: for a portfolio whose event dates are unique and a target date with at
\* least one event at or before it, the resolver (the private selection, the
\* tickers getter and the weights getter) returns the data of the event of
\* the maximum date among those at or before the target, whatever the order
\* of the events in the configuration; so for a target at or after the latest
\* event it returns the latest event.
C1_ResolverSelectsLatestAtOrBefore ==
    ( /\ ResolverCalled
      /\ UniqueEventDates(tickers_data[call.portfolio_name])
      /\ AtOrBefore(tickers_data[call.portfolio_name], call.target_date) # {} )
    => /\ ret.exc = "none"
       /\ ret.val = ResolvedFrom(
              Latest(AtOrBefore(tickers_data[call.portfolio_name], call.target_date)))

\* the later event is configured first, the earlier second, both are at or
\* before the target 2021-06-01, and the resolver returned the one of 2021-06-01
C1_Witness ==
    /\ call.op = "_get_active_rebalance_for_date"
    /\ call.portfolio_name = "portfolio_1"
    /\ call.target_date = D_2021_06_01
    /\ Len(tickers_data["portfolio_1"]) = 2
    /\ tickers_data["portfolio_1"][1].value = Event(D_2021_06_01, A_unset_B_unset)
    /\ tickers_data["portfolio_1"][2].value = Event(D_2019_01_01, A_fixed_B_unset)
    /\ ret.val = Event(D_2021_06_01, A_unset_B_unset)

-----------------------------------------------------------------------------
(* C2 *)

\* C2: for a target date strictly before the earliest event date, and for a
\* portfolio without events, no event is selected: the private selection
\* returns None, the getters log that no rebalance was found and return the
\* empty list and the empty dict (the code's NoActiveRebalance), so no ticker
\* and no weight of any event is returned.
C2_NoActiveRebalanceBeforeEarliest ==
    ( /\ ResolverCalled
      /\ AtOrBefore(tickers_data[call.portfolio_name], call.target_date) = {} )
    => /\ ret.exc = "none"
       /\ call.op = "_get_active_rebalance_for_date" => ret.val = None
       /\ call.op = "get_portfolio_tickers_for_date" =>
              ret.val = {} /\ "warning: no rebalance for date" \in ret.log
       /\ call.op = "get_portfolio_weights_for_date" =>
              ret.val = EmptyDict /\ "warning: no rebalance for date" \in ret.log

\* two events with tickers, both after the target 2018-12-31: no tickers
C2_Witness ==
    /\ call.op = "get_portfolio_tickers_for_date"
    /\ call.portfolio_name = "portfolio_1"
    /\ call.target_date = D_2018_12_31
    /\ Len(tickers_data["portfolio_1"]) = 2
    /\ \A e \in RebalanceEvents(tickers_data["portfolio_1"]) : DOMAIN e.tickers # {}
    /\ ret.val = {}
    /\ "warning: no rebalance for date" \in ret.log

-----------------------------------------------------------------------------
(* C3 *)

\* the event the resolver selects for the call's portfolio and date
Selected ==
    _get_active_rebalance_for_date(tickers_data[call.portfolio_name], call.target_date).val

\* C3: for the selected event, the resolved tickers are exactly the keys of
\* its allocations, and the resolved fixed weights are exactly its entries
\* whose weight is not None, a weight of 0 included; so the keys of the fixed
\* weights are among the tickers resolved for the same portfolio and date.
C3_TickersAreKeysFixedAreNonNull ==
    (ResolverCalled /\ call.op # "_get_active_rebalance_for_date" /\ Selected # None) =>
        /\ call.op = "get_portfolio_tickers_for_date" =>
               ret.val = DOMAIN Selected.tickers
        /\ call.op = "get_portfolio_weights_for_date" =>
               /\ DOMAIN ret.val =
                      {t \in DOMAIN Selected.tickers : Selected.tickers[t] # None}
               /\ \A t \in DOMAIN ret.val : ret.val[t] = Selected.tickers[t]
               /\ \A t \in DOMAIN Selected.tickers :
                      Selected.tickers[t] = Zero => t \in DOMAIN ret.val /\ ret.val[t] = Zero
               /\ DOMAIN ret.val \subseteq
                      get_portfolio_tickers_for_date(
                          tickers_data, call.portfolio_name, call.target_date).val

\* the event {A: 0, B: None, C: 0.6}: A is fixed at 0, B is not fixed
C3_Witness ==
    /\ call.op = "get_portfolio_weights_for_date"
    /\ call.portfolio_name = "portfolio_1"
    /\ Selected # None
    /\ DOMAIN Selected.tickers = {"A", "B", "C"}
    /\ Selected.tickers["A"] = Zero
    /\ Selected.tickers["B"] = None
    /\ ret.val = [t \in {"A", "C"} |-> IF t = "A" THEN Zero ELSE Rat(6, 10)]

-----------------------------------------------------------------------------
(* Vocabulary of the properties of the calculator's private functions *)

MixCalled == call.op = "_calculate_mixed_weights"

\* the table holds a capitalization value for the ticker
HasCap(t) == market_df # None /\ t \in DOMAIN market_df /\ market_df[t] # NaN

\* the tickers of the call that carry no fixed weight
Unweighted == call.tickers \ DOMAIN call.weights

\* the capitalization values of the tickers of T that have one
CapsOf(T) == [t \in {u \in T : HasCap(u)} |-> market_df[t]]

-----------------------------------------------------------------------------
(* C4 *)

\* C4: whenever _calculate_mixed_weights returns a mapping that is not empty,
\* its weights sum to exactly 1, in the all-fixed, the none-fixed and the
\* mixed regime and in every fallback of the mixed regime.
C4_MixNonEmptySumsToOne ==
    (MixCalled /\ ret.exc = "none" /\ DOMAIN ret.val # {}) => SumValues(ret.val) = One

\* mixed regime, main branch: A fixed at 0.4, B and C by capitalization
\* 300 and 700, three weights that sum to 1
C4_Witness ==
    /\ MixCalled
    /\ call.tickers = {"A", "B", "C"}
    /\ call.weights = [t \in {"A"} |-> Rat(4, 10)]
    /\ CapsOf({"B", "C"}) = [t \in {"B", "C"} |-> IF t = "B" THEN Rat(300, 1) ELSE Rat(700, 1)]
    /\ ret.val = [t \in {"A", "B", "C"} |->
                    IF t = "A" THEN Rat(2, 5) ELSE IF t = "B" THEN Rat(9, 50) ELSE Rat(21, 50)]
    /\ SumValues(ret.val) = One

-----------------------------------------------------------------------------
(* C5 *)

\* the inputs from which every ticker of the call receives a weight: no
\* ticker at all; all fixed with a sum that is not zero; or every ticker
\* without a fixed weight has a capitalization, their total is not zero, and
\* the fixed weights, if any, sum to less than 1
MixComplete ==
    \/ call.tickers = {}
    \/ Unweighted = {} /\ SumValues(call.weights) # Zero
    \/ /\ Unweighted # {}
       /\ \A t \in Unweighted : HasCap(t)
       /\ SumValues(CapsOf(Unweighted)) # Zero
       /\ DOMAIN call.weights # {} => RLt(SumValues(call.weights), One)

\* C5 as stated: for every ticker set that is not empty the keys of the
\* result of _calculate_mixed_weights are exactly the input tickers, and for
\* the empty ticker set the result is the empty mapping.
C5_MixKeysAreExactlyTickers ==
    MixCalled =>
        /\ ret.exc = "none"
        /\ call.tickers = {} => ret.val = EmptyDict
        /\ call.tickers # {} => DOMAIN ret.val = call.tickers

\* C5, amended: the keys of the result of _calculate_mixed_weights are among
\* the input tickers (no ticker is added), the result for the empty ticker
\* set is the empty mapping, and the keys are exactly the input tickers if
\* and only if the inputs are complete (MixComplete): a ticker without a
\* fixed weight and without capitalization, a capitalization total of zero,
\* fixed weights that sum to 1 or more beside unweighted tickers, or a zero
\* sum of fixed weights each leave tickers out.
C5_MixKeysAmongTickers ==
    MixCalled =>
        /\ ret.exc = "none"
        /\ DOMAIN ret.val \subseteq call.tickers
        /\ call.tickers = {} => ret.val = EmptyDict
        /\ DOMAIN ret.val = call.tickers <=> MixComplete

\* A fixed at 0.6, B without fixed weight and without capitalization: B is
\* left out, the result is {A: 1}
C5_Witness ==
    /\ MixCalled
    /\ call.tickers = {"A", "B"}
    /\ call.weights = [t \in {"A"} |-> Rat(6, 10)]
    /\ ~HasCap("B")
    /\ ret.val = [t \in {"A"} |-> One]

-----------------------------------------------------------------------------
(* C6 *)

\* 0 <= w <= 1
InUnitInterval(w) == RLe(Zero, w) /\ RLe(w, One)

\* the event the resolver selects for portfolio_1 at the call's date
SelectedOfPortfolio1 ==
    _get_active_rebalance_for_date(tickers_data["portfolio_1"], call.target_date).val

\* C6: every weight of the mapping calculate_portfolio_weights_for_date
\* returns, and every weight of every per-portfolio mapping
\* calculate_all_portfolios_weights_for_date returns, lies in [0, 1], for
\* every configuration of fixed weights (each not negative, also above 1 and
\* summing to more than 1) and every capitalization table.
C6_WeightsInUnitInterval ==
    /\ (call.op = "calculate_portfolio_weights_for_date" /\ ret.exc = "none") =>
           \A t \in DOMAIN ret.val : InUnitInterval(ret.val[t])
    /\ (call.op = "calculate_all_portfolios_weights_for_date" /\ ret.exc = "none") =>
           \A p \in DOMAIN ret.val :
               \A t \in DOMAIN ret.val[p] : InUnitInterval(ret.val[p][t])

\* portfolio_1 fixes A and B at 0.6 each and leaves C, which has a
\* capitalization, unset: the remaining weight is negative, and the aggregate
\* holds {A: 0.5, B: 0.5} for it
C6_Witness ==
    /\ call.op = "calculate_all_portfolios_weights_for_date"
    /\ SelectedOfPortfolio1 # None
    /\ SelectedOfPortfolio1.tickers =
           [t \in {"A", "B", "C"} |-> IF t = "C" THEN None ELSE Rat(6, 10)]
    /\ HasCap("C")
    /\ market_df["C"] # Zero
    /\ "portfolio_1" \in DOMAIN ret.val
    /\ ret.val["portfolio_1"] = [t \in {"A", "B"} |-> Rat(1, 2)]

-----------------------------------------------------------------------------
(* C7 *)

\* 1 - sum of the fixed weights of the call
RemainderOfFixed == RSub(One, SumValues(call.weights))

\* the mixed regime with fixed weights summing to p, 0 < p < 1, and a total
\* capitalization of the unweighted tickers that is not zero
MixedMainBranch ==
    /\ MixCalled
    /\ DOMAIN call.weights # {}
    /\ Unweighted # {}
    /\ RLt(Zero, SumValues(call.weights))
    /\ RLt(SumValues(call.weights), One)
    /\ SumValues(CapsOf(Unweighted)) # Zero

\* C7: in the mixed regime, when the fixed weights sum to p with 0 < p < 1
\* and the unweighted tickers with a capitalization have a total cap_total
\* that is not zero, each unweighted ticker i with a capitalization cap_i is
\* in the result with weight (cap_i / cap_total) * (1 - p); cap_total is over
\* the unweighted tickers only, the capitalizations of the fixed tickers do
\* not enter.
C7_MixedScalesCapWeightsToRemainder ==
    MixedMainBranch =>
        /\ ret.exc = "none"
        /\ \A i \in DOMAIN CapsOf(Unweighted) :
               /\ i \in DOMAIN ret.val
               /\ ret.val[i] = RMul(RDiv(market_df[i], SumValues(CapsOf(Unweighted))),
                                    RemainderOfFixed)

\* {A: 0.6, B: None} with capitalizations for A and for B: {A: 0.6, B: 0.4}
C7_Witness ==
    /\ MixCalled
    /\ call.tickers = {"A", "B"}
    /\ call.weights = [t \in {"A"} |-> Rat(6, 10)]
    /\ HasCap("A") /\ market_df["A"] = Rat(700, 1)
    /\ HasCap("B") /\ market_df["B"] = Rat(300, 1)
    /\ ret.val = [t \in {"A", "B"} |-> IF t = "A" THEN Rat(6, 10) ELSE Rat(4, 10)]

-----------------------------------------------------------------------------
(* C8 *)

\* C8: when no ticker has a fixed weight, the result of
\* _calculate_mixed_weights holds no ticker whose lookup yields no value,
\* and, the total capitalization of the others not being zero, it holds
\* exactly the others, each with its capitalization divided by that total.
C8_NoneFixedIsCapitalizationWeights ==
    (MixCalled /\ DOMAIN call.weights = {} /\ call.tickers # {}) =>
        /\ ret.exc = "none"
        /\ DOMAIN ret.val \subseteq DOMAIN CapsOf(call.tickers)
        /\ SumValues(CapsOf(call.tickers)) # Zero =>
               ret.val = [t \in DOMAIN CapsOf(call.tickers) |->
                             RDiv(market_df[t], SumValues(CapsOf(call.tickers)))]

\* {A: None, B: None, C: None} with capitalizations {A: 300, B: 700} and
\* none for C: {A: 0.3, B: 0.7}
C8_Witness ==
    /\ MixCalled
    /\ call.tickers = {"A", "B", "C"}
    /\ call.weights = EmptyDict
    /\ CapsOf(call.tickers) = A300_B700
    /\ ret.val = [t \in {"A", "B"} |-> IF t = "A" THEN Rat(3, 10) ELSE Rat(7, 10)]

-----------------------------------------------------------------------------
(* C9 *)

\* the fixed weights cover every ticker of the call
AllFixed == MixCalled /\ Unweighted = {}

\* C9: when the fixed weights cover every ticker, the result of
\* _calculate_mixed_weights is the same under every capitalization table,
\* the table never loaded included, and, their sum not being zero, it is
\* each fixed weight divided by the sum of the fixed weights.
C9_AllFixedIgnoresCapitalization ==
    AllFixed =>
        /\ ret.exc = "none"
        /\ \A df \in CapTablesOver(Tickers) :
               _calculate_mixed_weights(df, call.tickers, call.weights) = ret
        /\ SumValues(call.weights) # Zero =>
               ret.val = [t \in call.tickers |->
                             RDiv(call.weights[t], SumValues(call.weights))]

\* {A: 0.6, B: 0.6} under the table {A: 300, B: 700, C: 700}: {A: 0.5, B: 0.5}
C9_Witness ==
    /\ MixCalled
    /\ call.tickers = {"A", "B"}
    /\ call.weights = [t \in {"A", "B"} |-> Rat(6, 10)]
    /\ market_df = A300_B700_C700
    /\ ret.val = [t \in {"A", "B"} |-> Rat(1, 2)]

-----------------------------------------------------------------------------
(* C10 *)

\* the event selected for portfolio_1 fixes every ticker, at least one, and
\* the fixed weights sum to zero
Portfolio1AllFixedZeroSum ==
    /\ SelectedOfPortfolio1 # None
    /\ DOMAIN SelectedOfPortfolio1.tickers # {}
    /\ \A t \in DOMAIN SelectedOfPortfolio1.tickers : SelectedOfPortfolio1.tickers[t] # None
    /\ SumValues(SelectedOfPortfolio1.tickers) = Zero

\* C10: when the active event of a portfolio fixes every ticker and the
\* fixed weights sum to zero, the computation of its weights does not raise
\* (no division by zero), logs the error of the zero total (the code's
\* ZeroWeightSum) and returns no weights; and the aggregate over all
\* portfolios does not raise, logs that the portfolio is skipped and has no
\* key for it.
C10_AllFixedZeroSumIsSkipped ==
    /\ ( /\ call.op = "calculate_portfolio_weights_for_date"
         /\ call.portfolio_name = "portfolio_1"
         /\ Portfolio1AllFixedZeroSum )
       => /\ ret.exc = "none"
          /\ ret.val = EmptyDict
          /\ "error: total weight is zero" \in ret.log
    /\ ( /\ call.op = "calculate_all_portfolios_weights_for_date"
         /\ Portfolio1AllFixedZeroSum )
       => /\ ret.exc = "none"
          /\ "portfolio_1" \notin DOMAIN ret.val
          /\ "error: total weight is zero" \in ret.log
          /\ "warning: portfolio skipped" \in ret.log

\* portfolio_1 fixes A and B at 0: the aggregate holds portfolio_2 only
C10_Witness ==
    /\ call.op = "calculate_all_portfolios_weights_for_date"
    /\ Portfolio1AllFixedZeroSum
    /\ DOMAIN SelectedOfPortfolio1.tickers = {"A", "B"}
    /\ DOMAIN ret.val = {"portfolio_2"}
    /\ ret.val["portfolio_2"] = [t \in {"A"} |-> One]
    /\ "warning: portfolio skipped" \in ret.log

-----------------------------------------------------------------------------
(* C11 *)

\* the fixed weights of the call, each divided by their sum
NormalizedFixed ==
    [t \in DOMAIN call.weights |-> RDiv(call.weights[t], SumValues(call.weights))]

\* some tickers of the call are fixed and some are not
MixedRegime == MixCalled /\ DOMAIN call.weights # {} /\ Unweighted # {}

\* C11: in the mixed regime with 1 - sum(fixed weights) <= 0 the result of
\* _calculate_mixed_weights is the fixed weights divided by their sum: its
\* keys are exactly the fixed tickers, no unweighted ticker is in it,
\* whatever the capitalizations of the unweighted tickers.
C11_MixedNoRemainderIsNormalizedFixed ==
    (MixedRegime /\ RLe(RemainderOfFixed, Zero)) =>
        /\ ret.exc = "none"
        /\ ret.val = NormalizedFixed
        /\ DOMAIN ret.val = DOMAIN call.weights
        /\ DOMAIN ret.val \cap Unweighted = {}

\* {A: 0.4, B: 0.6, C: None}, remaining 0, C with a capitalization of 700:
\* {A: 0.4, B: 0.6}
C11_Witness ==
    /\ MixCalled
    /\ call.tickers = {"A", "B", "C"}
    /\ call.weights = [t \in {"A", "B"} |-> IF t = "A" THEN Rat(4, 10) ELSE Rat(6, 10)]
    /\ RemainderOfFixed = Zero
    /\ HasCap("C") /\ market_df["C"] = Rat(700, 1)
    /\ ret.val = [t \in {"A", "B"} |-> IF t = "A" THEN Rat(4, 10) ELSE Rat(6, 10)]

-----------------------------------------------------------------------------
(* C12 *)

\* C12: in the mixed regime, when no unweighted ticker has a capitalization
\* (and also when those they have total zero: no capitalization weights),
\* the result of _calculate_mixed_weights is that of normalizing the fixed
\* weights alone: each fixed weight divided by their sum, or the empty
\* mapping when that sum is zero; no unweighted ticker is in it.
C12_MixedNoCapitalizationIsNormalizedFixed ==
    (MixedRegime /\ SumValues(CapsOf(Unweighted)) = Zero) =>
        /\ ret.exc = "none"
        /\ SumValues(call.weights) # Zero => ret.val = NormalizedFixed
        /\ SumValues(call.weights) = Zero => ret.val = EmptyDict
        /\ DOMAIN ret.val \cap Unweighted = {}

\* {A: 0.4, B: None, C: None} and no capitalization for B nor C: {A: 1}
C12_Witness ==
    /\ MixCalled
    /\ call.tickers = {"A", "B", "C"}
    /\ call.weights = [t \in {"A"} |-> Rat(4, 10)]
    /\ DOMAIN CapsOf(Unweighted) = {}
    /\ ret.val = [t \in {"A"} |-> One]
    /\ "warning: predefined weights only" \in ret.log

-----------------------------------------------------------------------------
(* C13 *)

CapWeightsCalled == call.op = "_calculate_capitalization_weights_for_tickers"

\* C13: _calculate_capitalization_weights_for_tickers returns the empty
\* mapping, without raising, whenever no queried ticker has a capitalization
\* or the capitalizations of those that have one sum to zero; otherwise its
\* result is not empty and sums to 1.
C13_CapWeightsEmptyWithoutPositiveTotal ==
    CapWeightsCalled =>
        /\ ret.exc = "none"
        /\ SumValues(CapsOf(call.tickers)) = Zero => ret.val = EmptyDict
        /\ SumValues(CapsOf(call.tickers)) # Zero =>
               DOMAIN ret.val # {} /\ SumValues(ret.val) = One

\* A and B queried, both with a capitalization of 0: the total is zero, the
\* result is empty
C13_Witness ==
    /\ CapWeightsCalled
    /\ call.tickers = {"A", "B"}
    /\ DOMAIN CapsOf(call.tickers) = {"A", "B"}
    /\ SumValues(CapsOf(call.tickers)) = Zero
    /\ ret.val = EmptyDict
    /\ "warning: total capitalization is zero" \in ret.log

-----------------------------------------------------------------------------
(* C14 *)

\* the positions of the rebalancing entries of a portfolio mapping
RebalancePositions(portfolio_data) ==
    {k \in 1..Len(portfolio_data) : IsRebalanceEntry(portfolio_data[k])}

\* two entries of the portfolio with different allocations carry the same
\* date, which is the latest date at or before the target
LatestDateDuplicated(portfolio_data, target_date) ==
    \E i, j \in RebalancePositions(portfolio_data) :
        /\ i # j
        /\ portfolio_data[i].value.tickers # portfolio_data[j].value.tickers
        /\ DateOrd(portfolio_data[i].value.date) = DateOrd(portfolio_data[j].value.date)
        /\ DateOrd(portfolio_data[i].value.date) <= DateOrd(target_date)
        /\ \A e \in AtOrBefore(portfolio_data, target_date) :
               DateOrd(e.date) <= DateOrd(portfolio_data[i].value.date)

\* C14: when two events of the portfolio carry the same date and that date
\* is the latest at or before the target, _get_active_rebalance_for_date
\* fails (DuplicateRebalanceDate): it does not return an event of the
\* portfolio.
C14_DuplicateDateIsNotResolved ==
    ( /\ call.op = "_get_active_rebalance_for_date"
      /\ LatestDateDuplicated(tickers_data[call.portfolio_name], call.target_date) )
    => ret.val \notin RebalanceEvents(tickers_data[call.portfolio_name])

-----------------------------------------------------------------------------
(* C15 *)

\* C15: for a configured portfolio calculate_portfolio_weights_for_date does
\* not raise; when no event of the portfolio is dated at or before the
\* target it logs that no rebalance was found and returns the empty mapping;
\* otherwise it returns what _calculate_mixed_weights returns for the keys
\* of the allocations of the active event and its entries that are not None.
C15_PortfolioWeightsAreMixOfResolved ==
    ( /\ call.op = "calculate_portfolio_weights_for_date"
      /\ call.portfolio_name \in DOMAIN tickers_data )
    => /\ ret.exc = "none"
       /\ AtOrBefore(tickers_data[call.portfolio_name], call.target_date) = {} =>
              /\ ret.val = EmptyDict
              /\ "warning: no rebalance for date" \in ret.log
       /\ AtOrBefore(tickers_data[call.portfolio_name], call.target_date) # {} =>
              ret.val = _calculate_mixed_weights(
                            market_df, DOMAIN Selected.tickers, NonNull(Selected.tickers)).val

\* the only event of portfolio_1, {A: 0.6, B: None}, is dated after the
\* target 2018-12-31: the empty mapping and the warning
C15_Witness ==
    /\ call.op = "calculate_portfolio_weights_for_date"
    /\ call.portfolio_name = "portfolio_1"
    /\ call.target_date = D_2018_12_31
    /\ RebalanceEvents(tickers_data["portfolio_1"]) = {Event(D_2019_01_01, A_fixed_B_unset)}
    /\ ret.val = EmptyDict
    /\ "warning: no rebalance for date" \in ret.log

-----------------------------------------------------------------------------
(* C16 *)

\* what calculate_portfolio_weights_for_date returns for the portfolio p at
\* the call's date
AloneAtCallDate(p) ==
    calculate_portfolio_weights_for_date(tickers_data, market_df, p, call.target_date)

\* C16: the keys of the mapping calculate_all_portfolios_weights_for_date
\* returns are exactly the configured portfolios whose own computation for
\* the date is not empty, each mapped to that result; no value of the
\* aggregate is an empty mapping.
C16_AggregateHoldsTheNonEmptyResults ==
    (call.op = "calculate_all_portfolios_weights_for_date" /\ ret.exc = "none") =>
        /\ DOMAIN ret.val =
               {p \in DOMAIN tickers_data : DOMAIN AloneAtCallDate(p).val # {}}
        /\ \A p \in DOMAIN ret.val :
               /\ ret.val[p] = AloneAtCallDate(p).val
               /\ DOMAIN ret.val[p] # {}

\* at 2020-06-01 the only event of portfolio_1 is still to come: the
\* aggregate holds portfolio_2 alone
C16_Witness ==
    /\ call.op = "calculate_all_portfolios_weights_for_date"
    /\ call.target_date = D_2020_06_01
    /\ RebalanceEvents(tickers_data["portfolio_1"]) = {Event(D_2021_06_01, A_fixed_B_unset)}
    /\ ret.val = [p \in {"portfolio_2"} |-> [t \in {"A"} |-> One]]

-----------------------------------------------------------------------------
(* C18 *)

\* the computation of the portfolio p at the call's date meets a recoverable
\* failure: no event at or before the date, two events of the latest date at
\* or before it, or an empty result (zero weight sum, no capitalization)
RecoverableFailure(p) ==
    \/ AtOrBefore(tickers_data[p], call.target_date) = {}
    \/ LatestDateDuplicated(tickers_data[p], call.target_date)
    \/ DOMAIN AloneAtCallDate(p).val = {}

\* C18: calculate_all_portfolios_weights_for_date does not raise on a
\* recoverable failure of one portfolio: the aggregate has no entry for a
\* portfolio whose computation failed, and the entry of every other
\* portfolio is the result of its computation alone.
C18_FailureRemovesOnlyThatPortfolio ==
    call.op = "calculate_all_portfolios_weights_for_date" =>
        /\ ret.exc = "none"
        /\ \A p \in DOMAIN tickers_data :
               /\ RecoverableFailure(p) => p \notin DOMAIN ret.val
               /\ ~RecoverableFailure(p) =>
                      p \in DOMAIN ret.val /\ ret.val[p] = AloneAtCallDate(p).val

-----------------------------------------------------------------------------
(* C17 *)

\* the date string of an event of the portfolio that is chronologically the
\* earliest
EarliestDate(portfolio_data) ==
    (CHOOSE e \in RebalanceEvents(portfolio_data) :
        \A f \in RebalanceEvents(portfolio_data) : DateOrd(e.date) <= DateOrd(f.date)).date

\* the configured portfolios with at least one event
WithEvents == {p \in DOMAIN tickers_data : RebalanceEvents(tickers_data[p]) # {}}

\* what calculate_portfolio_weights_for_date returns for the portfolio p at
\* its chronologically earliest rebalancing date
AloneAtEarliestDate(p) ==
    calculate_portfolio_weights_for_date(
        tickers_data, market_df, p, EarliestDate(tickers_data[p])).val

\* C17: for every portfolio with at least one event, get_portfolio_tickers,
\* get_portfolio_weights and calculate_portfolio_weights return what the
\* dated variant returns for the chronologically earliest rebalancing date
\* of the portfolio, and calculate_all_portfolios_weights holds for each such
\* portfolio the result of the dated variant at that date when it is not
\* empty and no entry when it is.
C17_UndatedVariantsUseEarliestDate ==
    /\ (call.op = "get_portfolio_tickers" /\ call.portfolio_name \in WithEvents) =>
           ret.val = get_portfolio_tickers_for_date(tickers_data, call.portfolio_name,
                         EarliestDate(tickers_data[call.portfolio_name])).val
    /\ (call.op = "get_portfolio_weights" /\ call.portfolio_name \in WithEvents) =>
           ret.val = get_portfolio_weights_for_date(tickers_data, call.portfolio_name,
                         EarliestDate(tickers_data[call.portfolio_name])).val
    /\ (call.op = "calculate_portfolio_weights" /\ call.portfolio_name \in WithEvents) =>
           ret.val = AloneAtEarliestDate(call.portfolio_name)
    /\ call.op = "calculate_all_portfolios_weights" =>
           \A p \in WithEvents :
               IF DOMAIN AloneAtEarliestDate(p) = {}
               THEN p \notin DOMAIN ret.val
               ELSE p \in DOMAIN ret.val /\ ret.val[p] = AloneAtEarliestDate(p)

-----------------------------------------------------------------------------
(* C19 *)

\* every event date of the loaded definitions parses
WellFormedDates ==
    \A p \in DOMAIN tickers_data :
        \A e \in RebalanceEvents(tickers_data[p]) : ParseDate(e.date).ok

\* the calls that resolve a date or compute weights
ResolutionOps ==
    {"_get_active_rebalance_for_date", "get_portfolio_tickers_for_date",
     "get_portfolio_weights_for_date", "calculate_portfolio_weights_for_date",
     "calculate_all_portfolios_weights_for_date", "get_portfolio_tickers",
     "get_portfolio_weights", "calculate_portfolio_weights",
     "calculate_all_portfolios_weights"}

\* C19: a definition with an unparseable event date is rejected when the
\* configuration is loaded, so every resolution and every weight computation
\* runs on definitions whose event dates all parse, and none of them is the
\* first to meet the unparseable date (none raises).
C19_MalformedDefinitionNeverReachesResolution ==
    call.op \in ResolutionOps => WellFormedDates /\ ret.exc = "none"

-----------------------------------------------------------------------------
(* C21 *)

\* the public calls of Config and IndexWeightsCalculator: dated and undated,
\* one portfolio and all portfolios
PublicOps ==
    {"get_portfolio_tickers_for_date", "get_portfolio_weights_for_date",
     "calculate_portfolio_weights_for_date", "calculate_all_portfolios_weights_for_date",
     "get_portfolio_rebalance_dates", "get_portfolio_tickers", "get_portfolio_weights",
     "calculate_portfolio_weights", "calculate_all_portfolios_weights"}

\* C21: no call changes the loaded portfolio definitions nor the
\* capitalization table, and what a public call returns is never an object
\* the configuration holds: it is a new object.
C21_CallsLeaveStoredDataUnchanged ==
    /\ [](call.op \in PublicOps => ~ret.stored)
    /\ [][tickers_data' = tickers_data /\ market_df' = market_df]_vars

\* the active event fixes every ticker, so the weights returned equal the
\* stored mapping, and they are a new object
C21_Witness ==
    /\ call.op = "get_portfolio_weights_for_date"
    /\ call.portfolio_name = "portfolio_1"
    /\ Selected # None
    /\ DOMAIN Selected.tickers = {"A", "B"}
    /\ ret.val = Selected.tickers
    /\ ~ret.stored

-----------------------------------------------------------------------------
(* C22 *)

\* the calculator has been constructed
Constructed == tickers_data # None

\* the calculator's weight computations
ComputationOps ==
    {"calculate_portfolio_weights_for_date", "calculate_all_portfolios_weights_for_date",
     "calculate_portfolio_weights", "calculate_all_portfolios_weights"}

\* C22: a calculator sends exactly one bulk capitalization request, while it
\* is constructed and so before any resolution call; before construction
\* nothing is called and nothing is fetched, and after it, whatever sequence
\* of calls is made, the number of requests sent stays one.
C22_OneBulkFetchAtConstruction ==
    /\ ~Constructed => (fetches = 0 /\ call.op = "none")
    /\ Constructed => fetches = 1
    /\ call.op \in ResolutionOps => (Constructed /\ fetches = 1)

\* a weight computation of a calculator whose bulk request failed: the table
\* is still missing and no second request was sent
C22_Witness ==
    /\ call.op \in ComputationOps
    /\ "portfolio_1" \in DOMAIN tickers_data
    /\ market_df = None
    /\ fetches = 1

-----------------------------------------------------------------------------
(* C23 *)

\* no valid capitalization can be read for ticker: the table was never
\* loaded, the ticker is not in it, or its cell is NaN or the empty string
NoCapitalizationFor(df, ticker) ==
    \/ df = None
    \/ ticker \notin DOMAIN df
    \/ df[ticker] \in {NaN, EmptyString}

\* C23: for an unknown ticker, for a missing or empty capitalization cell and
\* when the table was never loaded, get_ticker_capitalization returns None
\* without raising, and get_multiple_tickers_capitalization returns without
\* raising a dict in which the ticker is absent or mapped to None.
C23_LookupOfMissingIsNone ==
    /\ (call.op = "get_ticker_capitalization" /\ NoCapitalizationFor(market_df, call.ticker))
           => (ret.exc = "none" /\ ret.val = None)
    /\ call.op = "get_multiple_tickers_capitalization"
           => /\ ret.exc = "none"
              /\ \A t \in call.tickers :
                     NoCapitalizationFor(market_df, t)
                         => (t \notin DOMAIN ret.val \/ ret.val[t] = None)

\* the lookup of a ticker whose cell is the empty string, next to one known
C23_Witness ==
    /\ call.op = "get_multiple_tickers_capitalization"
    /\ call.tickers = {"A", "B", "C"}
    /\ market_df # None
    /\ DOMAIN market_df = {"A", "B"}
    /\ market_df["A"] = EmptyString
    /\ market_df["B"] = Rat(300, 1)
    /\ ret.val = [t \in {"A", "B", "C"} |-> IF t = "B" THEN Rat(300, 1) ELSE None]

-----------------------------------------------------------------------------
(* C24 *)

\* the message by which the getters and the calculator report that no event
\* is active at the date (the NoActiveRebalance outcome)
NoActiveRebalance == "warning: no rebalance for date"

\* a dated call on a configured portfolio whose selected event is e
DatedCallSelects(e) ==
    /\ call.op \in {"get_portfolio_tickers_for_date", "get_portfolio_weights_for_date",
                    "calculate_portfolio_weights_for_date"}
    /\ call.portfolio_name \in DOMAIN tickers_data
    /\ Selected = e

-----------------------------------------------------------------------------
(* C25 *)

\* the weights w, each divided by their sum
Normalized(w) == [t \in DOMAIN w |-> RDiv(w[t], SumValues(w))]

\* what normalizing the fixed weights w alone gives: the empty mapping when
\* they sum to zero
NormalizedOrEmpty(w) == IF SumValues(w) = Zero THEN EmptyDict ELSE Normalized(w)

\* the event selected for portfolio_1 has tickers without a fixed weight and
\* the table, if one was loaded at all, has a capitalization for none of them
NoValidCapitalization ==
    /\ call.op \in {"calculate_portfolio_weights_for_date",
                    "calculate_all_portfolios_weights_for_date"}
    /\ call.op = "calculate_portfolio_weights_for_date" => call.portfolio_name = "portfolio_1"
    /\ SelectedOfPortfolio1 # None
    /\ DOMAIN SelectedOfPortfolio1.tickers # DOMAIN NonNull(SelectedOfPortfolio1.tickers)
    /\ \A t \in DOMAIN SelectedOfPortfolio1.tickers \ DOMAIN NonNull(SelectedOfPortfolio1.tickers) :
           ~HasCap(t)

\* what the portfolio gets when fixed are its fixed weights and no valid
\* capitalization exists: nothing, or the fixed weights normalized
WithoutCapitalization(fixed) ==
    IF DOMAIN fixed = {} THEN EmptyDict ELSE NormalizedOrEmpty(fixed)

\* C25: when none of the tickers without a fixed weight has a valid
\* capitalization (the table never loaded included), the computation does
\* not raise; a portfolio without fixed weights gets the empty mapping and is
\* left out of the aggregate; a portfolio with some fixed weights gets these
\* fixed weights normalized and nothing else (the empty mapping when they sum
\* to zero), also in the aggregate.
C25_NoCapitalizationGivesFixedOnlyOrNothing ==
    NoValidCapitalization =>
        /\ ret.exc = "none"
        /\ call.op = "calculate_portfolio_weights_for_date" =>
               ret.val = WithoutCapitalization(NonNull(SelectedOfPortfolio1.tickers))
        /\ call.op = "calculate_all_portfolios_weights_for_date" =>
               IF WithoutCapitalization(NonNull(SelectedOfPortfolio1.tickers)) = EmptyDict
               THEN "portfolio_1" \notin DOMAIN ret.val
               ELSE /\ "portfolio_1" \in DOMAIN ret.val
                    /\ ret.val["portfolio_1"] =
                           WithoutCapitalization(NonNull(SelectedOfPortfolio1.tickers))

\* the table was never loaded and the event fixes A and B and leaves C open:
\* the aggregate holds A and B normalized
C25_Witness ==
    /\ NoValidCapitalization
    /\ market_df = None
    /\ call.op = "calculate_all_portfolios_weights_for_date"
    /\ SelectedOfPortfolio1.tickers =
           [t \in Tickers |-> IF t = "A" THEN Rat(4, 10) ELSE IF t = "B" THEN Rat(4, 10) ELSE None]
    /\ "portfolio_1" \in DOMAIN ret.val
    /\ ret.val["portfolio_1"] = [t \in {"A", "B"} |-> Rat(1, 2)]

-----------------------------------------------------------------------------
(* C26 *)

\* the positions of the events that carry the latest date at or before the
\* target
TiedLatest(portfolio_data, target_date) ==
    {i \in RebalancePositions(portfolio_data) :
        /\ DateOrd(portfolio_data[i].value.date) <= DateOrd(target_date)
        /\ \A e \in AtOrBefore(portfolio_data, target_date) :
               DateOrd(e.date) <= DateOrd(portfolio_data[i].value.date)}

FirstOf(S) == CHOOSE i \in S : \A j \in S : i <= j

LastOf(S) == CHOOSE i \in S : \A j \in S : j <= i

\* the selection was called for a date at which several events are tied
TieSelected ==
    /\ call.op = "_get_active_rebalance_for_date"
    /\ Cardinality(TiedLatest(tickers_data[call.portfolio_name], call.target_date)) >= 2

\* C26 as stated: when several events share the latest date at or before the
\* target, _get_active_rebalance_for_date returns the one the iteration over
\* the portfolio mapping yields last.
C26_TieReturnsLastYielded ==
    TieSelected =>
        /\ ret.exc = "none"
        /\ ret.val = tickers_data[call.portfolio_name][
               LastOf(TiedLatest(tickers_data[call.portfolio_name], call.target_date))].value

\* C26, amended: when several events share the latest date at or before the
\* target, _get_active_rebalance_for_date returns the one the iteration over
\* the portfolio mapping yields first.
C26_TieReturnsFirstYielded ==
    TieSelected =>
        /\ ret.exc = "none"
        /\ ret.val = tickers_data[call.portfolio_name][
               FirstOf(TiedLatest(tickers_data[call.portfolio_name], call.target_date))].value

\* two events of different allocations are tied and the first was returned
C26_Witness ==
    /\ TieSelected
    /\ LatestDateDuplicated(tickers_data[call.portfolio_name], call.target_date)
    /\ ret.val = tickers_data[call.portfolio_name][1].value
    /\ ret.val # tickers_data[call.portfolio_name][2].value

-----------------------------------------------------------------------------
(* C27 *)

\* the main branch of the mixed regime: some tickers fixed, some not,
\* 1 - sum(fixed weights) > 0 and capitalization weights that are not empty
MixedRemainderPositive ==
    /\ MixedRegime
    /\ RLt(Zero, RemainderOfFixed)
    /\ SumValues(CapsOf(Unweighted)) # Zero

\* the map the main branch merges (line 134) from the fixed weights and the
\* capitalization weights cap_weights scaled to remaining_weight
MergedBeforeNormalization(predefined_weights, cap_weights, remaining_weight) ==
    Merge(predefined_weights,
          ScaleCapWeights(cap_weights, remaining_weight, SumValues(cap_weights)))

\* the part of the result that belongs to the tickers without a fixed weight
ScaledPart(weights) == Restrict(weights, DOMAIN weights \ DOMAIN call.weights)

\* C27: in the main branch of the mixed regime the scaled capitalization
\* weights sum to remaining = 1 - sum(fixed weights), the merged map of fixed
\* and scaled weights sums to 1 before the final normalization, the final
\* normalization returns that map unchanged, and every fixed ticker's final
\* weight is its configured weight.
C27_MainBranchNormalizationIsIdentity ==
    MixedRemainderPositive =>
        /\ ret.exc = "none"
        /\ SumValues(MergedBeforeNormalization(call.weights,
               _calculate_capitalization_weights_for_tickers(market_df, Unweighted).val,
               RemainderOfFixed)) = One
        /\ ret.val = MergedBeforeNormalization(call.weights,
               _calculate_capitalization_weights_for_tickers(market_df, Unweighted).val,
               RemainderOfFixed)
        /\ SumValues(ScaledPart(ret.val)) = RemainderOfFixed
        /\ \A t \in DOMAIN call.weights :
               t \in DOMAIN ret.val /\ ret.val[t] = call.weights[t]

\* {A: 0.4, B: None, C: None} with capitalizations 300 for B and 700 for C:
\* {A: 0.4, B: 0.18, C: 0.42}
C27_Witness ==
    /\ MixedRemainderPositive
    /\ call.tickers = {"A", "B", "C"}
    /\ call.weights = [t \in {"A"} |-> Rat(4, 10)]
    /\ HasCap("B") /\ market_df["B"] = Rat(300, 1)
    /\ HasCap("C") /\ market_df["C"] = Rat(700, 1)
    /\ ret.val = [t \in {"A", "B", "C"} |->
                     IF t = "A" THEN Rat(4, 10) ELSE IF t = "B" THEN Rat(18, 100) ELSE Rat(42, 100)]

-----------------------------------------------------------------------------
(* C30 *)

\* _calculate_mixed_weights was called in the none-fixed regime or in the
\* main branch of the mixed regime, and of the tickers without a fixed weight
\* some have a capitalization and some have none
PartlyCapitalized ==
    /\ MixCalled
    /\ \E t \in Unweighted : HasCap(t)
    /\ \E t \in Unweighted : ~HasCap(t)
    /\ DOMAIN call.weights # {} => MixedRemainderPositive

\* the keys of the result are the fixed tickers and the unweighted tickers
\* with a capitalization, and the latter share 1 - sum(fixed weights), which
\* is 1 when no ticker is fixed
CapitalizedAbsorbShare ==
    /\ ret.exc = "none"
    /\ DOMAIN ret.val = DOMAIN call.weights \cup DOMAIN CapsOf(Unweighted)
    /\ SumValues(ScaledPart(ret.val)) = RemainderOfFixed

\* C30 as stated: whenever only some of the tickers without a fixed weight
\* have a capitalization, those without are absent from the result, those
\* with one take the whole capitalization share, and the keys of the result
\* are the fixed tickers plus the tickers with a capitalization.
C30_CapitalizedTickersAbsorbShare ==
    PartlyCapitalized => CapitalizedAbsorbShare

\* C30, amended: the same, provided the capitalizations that exist do not
\* total zero.
C30_CapitalizedTickersAbsorbShareOfNonZeroTotal ==
    (PartlyCapitalized /\ SumValues(CapsOf(Unweighted)) # Zero) => CapitalizedAbsorbShare

\* {A: 0.4, B: None, C: None} with a capitalization for B only:
\* {A: 0.4, B: 0.6}
C30_Witness ==
    /\ PartlyCapitalized
    /\ call.tickers = {"A", "B", "C"}
    /\ call.weights = [t \in {"A"} |-> Rat(4, 10)]
    /\ HasCap("B") /\ market_df["B"] = Rat(300, 1)
    /\ ~HasCap("C")
    /\ ret.val = [t \in {"A", "B"} |-> IF t = "A" THEN Rat(4, 10) ELSE Rat(6, 10)]

-----------------------------------------------------------------------------
(* Vocabulary of the properties of the MOEX loader *)

\* v is a frame with rows
HasRows(v) == v # Pending /\ v # None /\ ~v.empty

\* a source was asked in the current attempt and gave no frame with rows
GaveNothing(v) == v # Pending /\ ~HasRows(v)

\* the elements of a sequence
Range(seq) == {seq[i] : i \in DOMAIN seq}

\* no entry of the sequence occurs twice
Distinct(seq) == \A i, j \in DOMAIN seq : seq[i] = seq[j] => i = j

\* the tickers whose load_ticker_data returned a frame with rows
Succeeded ==
    {moex.futures[i].ticker :
        i \in {j \in DOMAIN moex.futures :
                  moex.futures[j].pc = "returned" /\ HasRows(moex.futures[j].result)}}

-----------------------------------------------------------------------------
(* C28 *)

-----------------------------------------------------------------------------
(* C29 *)

\* C29: for a list of distinct tickers and in whatever order the futures
\* complete and are taken, no ticker is ever both in quotations_dict and in
\* failed_tickers; once every future has been taken each ticker is in exactly
\* one of the two, quotations_dict holds exactly the tickers whose
\* load_ticker_data returned a frame with rows, whatever became of the
\* others, and load_all_tickers returns that dict, or raises RuntimeError if
\* and only if no ticker succeeded.
C29_EachTickerSucceedsOrFailsOnce ==
    (call.op = "load_all_tickers" /\ Distinct(call.tickers)) =>
        /\ DOMAIN moex.quotations_dict \cap Range(moex.failed_tickers) = {}
        /\ Distinct(moex.failed_tickers)
        /\ moex.phase = "done" =>
               /\ \A i \in DOMAIN moex.futures : moex.futures[i].pc \in {"returned", "raised"}
               /\ DOMAIN moex.quotations_dict \cup Range(moex.failed_tickers) = Range(call.tickers)
               /\ DOMAIN moex.quotations_dict = Succeeded
               /\ \A t \in Succeeded : HasRows(moex.quotations_dict[t])
               /\ ret.exc = "RuntimeError" <=> Succeeded = {}
               /\ ret.exc \in {"none", "RuntimeError"}
               /\ ret.exc = "none" => ret.val = moex.quotations_dict

\* SBER failed for good, GAZP was loaded: the dict returned holds GAZP alone
C29_Witness ==
    /\ call.op = "load_all_tickers"
    /\ call.tickers = <<"SBER", "GAZP">>
    /\ moex.phase = "done"
    /\ moex.failed_tickers = <<"SBER">>
    /\ ret.exc = "none"
    /\ DOMAIN ret.val = {"GAZP"}
    /\ ret.val["GAZP"] = Frame("GAZP", "moexalgo")

-----------------------------------------------------------------------------
====
